---- MODULE Spec2Model ----
(***************************************************************************)
(* Verification model of pm-cli (pmx): the path policy of core/fsTools.ts  *)
(* and services/SafetyService.ts, the confirmation-gated write handlers,   *)
(* and the tool-calling turn loops (runInvestigation, runFeatureFlow, the  *)
(* REPL line handler).                                                     *)
(*                                                                         *)
(* Strings of the program are modelled as sequences of one-character       *)
(* strings, so that startsWith, ===, path.normalize and path.resolve are   *)
(* computed on characters as the program computes them.                    *)
(***************************************************************************)
EXTENDS Integers, Sequences, FiniteSets, TLC

VARIABLES
    \* ---- path policy machine (SpecPath) ----
    inPath,        \* the path argument handed to the policy (a string)
    polOp,         \* which entry point classified it: "none" before the call
    polDecision,   \* "none" | "Allowed" | "Blocked"
    polLocation,   \* absolute path handed to fs on Allowed, <<>> otherwise
    firstClass,    \* the first classification of inPath, and whether its
                   \* operation has classified inPath again since
    classLeft,     \* classifications of inPath still to be followed
    fileLen,       \* content.length of the files a file-system tool reads
    toolOut,       \* what the file-system tool called with inPath returned
    \* ---- one session of a turn loop (Spec) ----
    kind,          \* "repl" | "investigation" | "feature" | "agent"
    pc,            \* position of the session's async function
    messages,      \* the messages array
    calls,         \* ids of the tool_calls of the response being processed
    idx,           \* index in calls of the request being processed
    turns,         \* the loop's turns counter
    maxTurns,      \* config.maxTurns
    roundTrips,    \* calls made to the reasoning service for this session
    elapsed,       \* Date.now() - startTime
    maxTimeMs,     \* config.maxTimeMs
    disk,          \* the files of the project
    pending,       \* the PendingWrite awaiting confirmation
    writeStatus,   \* the last answer of promptForWriteConfirmation
    shownFull,     \* the prompt has printed the full content
    paused,        \* rl.pause() is in effect
    lastResult,    \* result text of the last finished tool call
    lastTool,      \* toolCall.function.name of the request last taken up
    result,        \* how the session ended
    returned,      \* the value the session handed to its caller
    initialMessageCount,
    onlyToolTurns, \* every answer to the investigation asked for tools, none for the report
    ledger,        \* the files on which a read or search of the session succeeded
    onConfirm,     \* investigate was handed a confirmation callback
    \* ---- the Ink chat component (SpecInk) ----
    confirmation,  \* the confirmation state: 0 for null, else the promise
                   \* whose resolve it holds
    promises,      \* the promises made by the confirmation callbacks, in
                   \* order of creation: "pending" or "resolved"
    submits,       \* the calls of handleSubmit: where each one is
    isLoading,     \* the isLoading state
    \* ---- a ContextManager (SpecContext) ----
    ctxMessages,   \* the messages array of the ContextManager
    maxHistory,    \* its maxHistory
    added,         \* the messages handed to addMessage so far, in order
    \* ---- the caps of searchFiles and listDocFiles (SpecCaps) ----
    capOp,         \* which of the two ran: "none" before the call
    allowedLines,  \* line.length of the lines that passed the filter of searchFiles
    matches,       \* what searchFiles returned
    files,         \* the Dirents fs.readdir gives listDocFiles: what each one is
    entries,       \* what listDocFiles returned
    \* ---- an MCPService (SpecMcp) ----
    clients,       \* the names in the clients map: the connected set
    connectionErrors, \* the names in the connectionErrors map
    connecting,    \* the calls of connectToServer that are past the test of
                   \* clients.has and await the connection, per name and caller
    live           \* per name, the clients connected and not closed

pathVars == <<inPath, polOp, polDecision, polLocation, firstClass, classLeft,
              fileLen, toolOut>>

sessVars == <<kind, pc, messages, calls, idx, turns, maxTurns, roundTrips,
              elapsed, maxTimeMs, disk, pending, writeStatus, shownFull, paused, lastResult,
              lastTool, result, returned, initialMessageCount, onlyToolTurns, ledger,
          onConfirm>>

inkVars == <<confirmation, promises, submits, isLoading>>

\* the variables of the components checked on their own
ctxVars == <<ctxMessages, maxHistory, added>>

capVars == <<capOp, allowedLines, matches, files, entries>>

mcpVars == <<clients, connectionErrors, connecting, live>>

compVars == <<inkVars, ctxVars, capVars, mcpVars>>

vars == <<inPath, polOp, polDecision, polLocation, firstClass, classLeft,
          fileLen, toolOut,
          kind, pc, messages, calls, idx, turns, maxTurns, roundTrips,
          elapsed, maxTimeMs, disk, pending, writeStatus, shownFull, paused, lastResult,
          lastTool, result, returned, initialMessageCount, onlyToolTurns, ledger,
          onConfirm,
          confirmation, promises, submits, isLoading,
          ctxMessages, maxHistory, added,
          capOp, allowedLines, matches, files, entries,
          clients, connectionErrors, connecting, live>>

----------------------------------------------------------------------------
(* Bounds of the model *)

\* longest input path, in segments
MaxSegs == 3

\* largest config.maxTurns a session is started with
MaxTurns == 2

\* most tool_calls in one response of the reasoning service
MaxBatch == 2

\* round-trips that are explored of the loops whose limit is out of reach
\* (the REPL's while (keepGoing) has none, InvestigatorAgent's is 30 turns)
MaxReplCalls == 2

\* last reading of the clock, and the time budget of a session
MaxClock == 2

\* classifications of one path that are followed when the policy is asked
\* about the same path repeatedly
MaxClassifications == 3

\* calls of handleSubmit followed in the Ink chat component
MaxSubmits == 3

\* promises the confirmation callbacks make in the Ink chat component
MaxPromises == 3

\* largest maxHistory a ContextManager is constructed with
MaxHistory == 2

\* calls of addMessage followed on a ContextManager
MaxAdds == 5

\* clients of an MCPService that are connected or being connected at a time
MaxClients == 3

\* the servers of config.mcpServers
ServerNames == {"a", "b"}

\* who called connectToServer: ensureConnections and reconnect catch its
\* exception and keep it in connectionErrors, any other caller gets it
Callers == {"managed", "direct"}

----------------------------------------------------------------------------
(* String helpers (JavaScript String methods) *)

SLASH == "/"

StartsWith(s, p) == Len(s) >= Len(p) /\ SubSeq(s, 1, Len(p)) = p

EndsWith(s, p) == Len(s) >= Len(p) /\ SubSeq(s, Len(s) - Len(p) + 1, Len(s)) = p

\* s.slice(0, -1)
DropLast(s) == SubSeq(s, 1, Len(s) - 1)

\* s.split('/')
RECURSIVE SplitSlash(_)
SplitSlash(s) ==
    IF s = <<>> THEN << <<>> >>
    ELSE LET rest == SplitSlash(Tail(s))
         IN  IF Head(s) = SLASH
             THEN << <<>> >> \o rest
             ELSE << <<Head(s)>> \o Head(rest) >> \o Tail(rest)

\* segs.join('/')
RECURSIVE JoinSlash(_)
JoinSlash(segs) ==
    IF segs = <<>> THEN <<>>
    ELSE IF Len(segs) = 1 THEN Head(segs)
    ELSE Head(segs) \o <<SLASH>> \o JoinSlash(Tail(segs))

----------------------------------------------------------------------------
(* String constants of the program *)

DOTDOT == <<".", ".">>
DOT == <<".">>
S_git == <<".", "g", "i", "t">>
S_node_modules == <<"n", "o", "d", "e", "_", "m", "o", "d", "u", "l", "e", "s">>
S_env == <<".", "e", "n", "v">>
S_DS_Store == <<".", "D", "S", "_", "S", "t", "o", "r", "e">>
S_dist == <<"d", "i", "s", "t">>
S_build == <<"b", "u", "i", "l", "d">>
S_next == <<".", "n", "e", "x", "t">>
S_coverage == <<"c", "o", "v", "e", "r", "a", "g", "e">>
S_docs == <<"d", "o", "c", "s">>
S_pmx == <<".", "p", "m", "x">>
S_pmx_global == <<".", "p", "m", "x", "-", "g", "l", "o", "b", "a", "l">>
S_PMX_md == <<"P", "M", "X", ".", "m", "d">>
S_README_md == <<"R", "E", "A", "D", "M", "E", ".", "m", "d">>
S_docs_old == <<"d", "o", "c", "s", "-", "o", "l", "d">>
S_proj == <<"p", "r", "o", "j">>
S_x == <<"x">>

\* process.cwd(): the project root
Cwd == <<SLASH>> \o S_proj

ALLOWED_WRITE_PREFIXES == << S_docs \o <<SLASH>>, S_pmx \o <<SLASH>> >>

BLOCKED_READ_PREFIXES ==
    << S_git \o <<SLASH>>, S_node_modules \o <<SLASH>>, S_env, S_DS_Store,
       S_dist \o <<SLASH>>, S_build \o <<SLASH>>, S_next \o <<SLASH>>,
       S_coverage \o <<SLASH>> >>

----------------------------------------------------------------------------
(* Node's path module (POSIX), as the policy functions call it *)

\* normalizeString: resolves "." and "..", drops empty segments
RECURSIVE NormSegs(_, _, _)
NormSegs(segs, acc, allowAboveRoot) ==
    IF segs = <<>> THEN acc
    ELSE LET s == Head(segs)
             next ==
                 IF s = <<>> \/ s = DOT THEN acc
                 ELSE IF s = DOTDOT
                      THEN IF acc # <<>> /\ acc[Len(acc)] # DOTDOT
                           THEN DropLast(acc)
                           ELSE IF allowAboveRoot THEN Append(acc, DOTDOT) ELSE acc
                      ELSE Append(acc, s)
         IN  NormSegs(Tail(segs), next, allowAboveRoot)

normalizeString(p, allowAboveRoot) ==
    JoinSlash(NormSegs(SplitSlash(p), <<>>, allowAboveRoot))

IsAbsolute(p) == p # <<>> /\ Head(p) = SLASH

\* path.normalize(p)
PathNormalize(p) ==
    IF p = <<>> THEN DOT
    ELSE LET isAbs == IsAbsolute(p)
             trailing == p[Len(p)] = SLASH
             body == normalizeString(p, ~isAbs)
         IN  IF body = <<>>
             THEN IF isAbs THEN <<SLASH>>
                  ELSE IF trailing THEN DOT \o <<SLASH>> ELSE DOT
             ELSE (IF isAbs THEN <<SLASH>> ELSE <<>>) \o body
                  \o (IF trailing THEN <<SLASH>> ELSE <<>>)

\* path.resolve(base, p), base absolute
PathResolve(base, p) ==
    LET full == IF IsAbsolute(p) THEN p
                ELSE IF p = <<>> THEN base
                ELSE base \o <<SLASH>> \o p
    IN  <<SLASH>> \o normalizeString(full, FALSE)

\* path.relative(from, to), both absolute and normalized
RECURSIVE CommonLen(_, _)
CommonLen(a, b) ==
    IF a = <<>> \/ b = <<>> \/ Head(a) # Head(b) THEN 0
    ELSE 1 + CommonLen(Tail(a), Tail(b))

PathRelative(from, to) ==
    LET f == NormSegs(SplitSlash(from), <<>>, FALSE)
        t == NormSegs(SplitSlash(to), <<>>, FALSE)
        c == CommonLen(f, t)
        ups == [i \in 1..(Len(f) - c) |-> DOTDOT]
    IN  JoinSlash(ups \o SubSeq(t, c + 1, Len(t)))

----------------------------------------------------------------------------
(* core/fsTools.ts: the path policy *)

\* relativePath.replace(/^(\.\.(\/|\\|$))+/, '') : removes every leading "../"
RECURSIVE StripLeadingDotDot(_)
StripLeadingDotDot(s) ==
    IF StartsWith(s, DOTDOT \o <<SLASH>>) \/ StartsWith(s, DOTDOT \o <<"\\">>)
    THEN StripLeadingDotDot(SubSeq(s, 4, Len(s)))
    ELSE IF s = DOTDOT THEN <<>> ELSE s

cleanRelative(relativePath) == StripLeadingDotDot(PathNormalize(relativePath))

\* a prefix check that forgets the directory separator ('docs' for 'docs/')
PrefixMatchesNoSeparator(clean, prefix) ==
    IF EndsWith(prefix, <<SLASH>>)
    THEN StartsWith(clean, DropLast(prefix))
    ELSE clean = prefix

\* the callback of ALLOWED_WRITE_PREFIXES.some / BLOCKED_READ_PREFIXES.some
PrefixMatches(clean, prefix) ==
    IF EndsWith(prefix, <<SLASH>>)
    THEN StartsWith(clean, prefix) \/ clean = DropLast(prefix)
    ELSE clean = prefix

SomePrefix(clean, prefixes) ==
    \E i \in 1..Len(prefixes) : PrefixMatches(clean, prefixes[i])

\* normalizePath(projectRoot, relativePath, operation): ok = FALSE models the
\* thrown "Access denied" error
normalizePath(projectRoot, relativePath, operation) ==
    LET clean == cleanRelative(relativePath)
        denied == IF operation = "write"
                  THEN ~SomePrefix(clean, ALLOWED_WRITE_PREFIXES)
                  ELSE SomePrefix(clean, BLOCKED_READ_PREFIXES)
    IN  [ok |-> ~denied,
         relativePath |-> clean,
         absolutePath |-> PathResolve(projectRoot, clean)]

----------------------------------------------------------------------------
(* services/SafetyService.ts and FileSystemService *)

\* SafetyService.validateWrite(filePath): TRUE, or FALSE for the thrown
\* "Safety Violation"
validateWrite(rootDir, filePath) ==
    LET resolvedPath == PathResolve(rootDir, filePath)
        relativePath == PathRelative(rootDir, resolvedPath)
        isPmxDir == StartsWith(relativePath, S_pmx) \/ StartsWith(relativePath, S_pmx_global)
        isDocsDir == StartsWith(relativePath, S_docs)
        isPmxFile == relativePath = S_PMX_md
        isReadme == relativePath = S_README_md
    IN  isPmxDir \/ isDocsDir \/ isPmxFile \/ isReadme

----------------------------------------------------------------------------
(* Values of a session *)

\* a message: role, the ids of its tool_calls, its tool_call_id
Msg(role, ids, id) == [role |-> role, ids |-> ids, id |-> id]

NoId == <<0, 0>>

NoPending == [path |-> <<>>, oldContent |-> "null", newContent |-> "null"]

\* paths the reasoning service names in its requests
S_docs_x == S_docs \o <<SLASH>> \o S_x

S_docs_slash == S_docs \o <<SLASH>>

SessionPaths == {S_docs_x, S_docs_slash, S_x}

\* paths it names in its read requests
ReadPaths == SessionPaths \cup {S_env}

\* contents the reasoning service offers for a write
Contents == {"new"}

L_docs == Cwd \o <<SLASH>> \o S_docs

L_docs_x == Cwd \o <<SLASH>> \o S_docs_x

L_x == Cwd \o <<SLASH>> \o S_x

\* .pmx/ and .pmx/memory.json, the file of MemoryManager
L_pmx == Cwd \o <<SLASH>> \o S_pmx

L_memory == L_pmx \o <<SLASH, "m", "e", "m", "o", "r", "y", ".", "j", "s", "o", "n">>

DiskLocations == {L_docs, L_docs_x, L_x, L_pmx, L_memory}

InitialDisks ==
    {d \in [DiskLocations -> {"dir", "absent", "old"}] :
        /\ d[L_docs] = "dir" /\ d[L_docs_x] \in {"absent", "old"} /\ d[L_x] = "old"
        /\ d[L_pmx] = "absent" /\ d[L_memory] = "absent"}

\* a returned result: InvestigationResult (summary, details, evidence: the
\* paths of its items); runFeatureFlow returns a path and a summary, the
\* other sessions a summary only
Returned(summary, details, evidence) ==
    [summary |-> summary, details |-> details, evidence |-> evidence, path |-> <<>>]

\* the result of runFeatureFlow: {path, summary}
FeatureResult(path, summary) == [Returned(summary, "", {}) EXCEPT !.path = path]

\* nothing returned yet
NoReturn == Returned("none", "none", {})

\* the value returned when a loop ends without a result
FallbackSummary(k) ==
    IF k = "investigation"
    THEN Returned("Investigation timed out or reached max turns.",
                  "The agent did not submit a final report in time.", {})
    ELSE IF k = "feature"
    THEN FeatureResult(<<>>, "Failed to generate document within turn limit.")
    ELSE Returned("Max turns reached.", "", {})

\* arguments the reasoning service gives submit_report: summary, details, evidence
ReportArgs ==
    {Returned("findings", "what was found", {S_x}),
     Returned("Investigation timed out or reached max turns.",
              "The agent did not submit a final report in time.", {})}

\* the session variables while only the path policy machine runs
SessIdle ==
    /\ kind = "none"
    /\ pc = "none"
    /\ messages = <<>>
    /\ calls = <<>>
    /\ idx = 0
    /\ turns = 0
    /\ maxTurns = 0
    /\ roundTrips = 0
    /\ elapsed = 0
    /\ maxTimeMs = 0
    /\ disk = [l \in DiskLocations |-> "absent"]
    /\ pending = NoPending
    /\ writeStatus = "none"
    /\ shownFull = FALSE
    /\ paused = FALSE
    /\ lastResult = "none"
    /\ lastTool = "none"
    /\ result = "none"
    /\ returned = NoReturn
    /\ initialMessageCount = 0
    /\ onlyToolTurns = TRUE
    /\ ledger = {}
    /\ onConfirm = FALSE

\* a text a read returns: the first chars characters of the file at loc,
\* followed by a marker of marker characters (0: no marker)
Text(loc, chars, marker) == [loc |-> loc, chars |-> chars, marker |-> marker]

\* no tool has returned: also the outcome of a tool that threw
NoOut == [ok |-> FALSE, text |-> Text(<<>>, 0, 0), entries |-> {}]

\* no classification made yet
NoClass == [op |-> "none", decision |-> "none", location |-> <<>>, again |-> FALSE]

\* the path policy machine while a session runs
PathIdle ==
    /\ inPath = <<>>
    /\ polOp = "none"
    /\ polDecision = "none"
    /\ polLocation = <<>>
    /\ firstClass = NoClass
    /\ classLeft = 0
    /\ fileLen = 0
    /\ toolOut = NoOut

\* no call of handleSubmit has been made
InkIdle ==
    /\ confirmation = 0
    /\ promises = <<>>
    /\ submits = [i \in 1..MaxSubmits |-> [at |-> "idle", awaits |-> 0]]
    /\ isLoading = FALSE

\* no ContextManager has been constructed
CtxIdle ==
    /\ ctxMessages = <<>>
    /\ maxHistory = 0
    /\ added = <<>>

\* listDocFiles has returned nothing yet
NoEntries == [listed |-> {}, marker |-> FALSE]

\* neither searchFiles nor listDocFiles is followed
CapIdle ==
    /\ capOp = "none"
    /\ allowedLines = <<>>
    /\ matches = <<>>
    /\ files = <<>>
    /\ entries = NoEntries

\* a new MCPService: both maps empty, no call under way
McpIdle ==
    /\ clients = {}
    /\ connectionErrors = {}
    /\ connecting = [c \in ServerNames \X Callers |-> 0]
    /\ live = [name \in ServerNames |-> 0]

\* the components while another machine runs
CompIdle == InkIdle /\ CtxIdle /\ CapIdle /\ McpIdle

----------------------------------------------------------------------------
(* Inputs of the path policy machine *)

SegAlphabet == {DOTDOT, DOT, S_git, S_env, S_docs, S_docs_old, S_proj, S_x}

SegSeqs == UNION {[1..n -> SegAlphabet] : n \in 0..MaxSegs}

RenderPath(abs, segs, trail) ==
    (IF abs THEN <<SLASH>> ELSE <<>>) \o JoinSlash(segs)
    \o (IF trail THEN <<SLASH>> ELSE <<>>)

InputPaths ==
    {RenderPath(a, s, t) : a \in BOOLEAN, s \in SegSeqs \ {<<>>}, t \in BOOLEAN}
    \cup {<<>>}

----------------------------------------------------------------------------
(* The path policy machine: classifications of one input path by the     *)
(* entry points of the policy; SpecPath follows one classification of     *)
(* each input path, SpecPure several of the same path                     *)

InitPath ==
    /\ inPath \in InputPaths
    /\ polOp = "none"
    /\ polDecision = "none"
    /\ polLocation = <<>>
    /\ firstClass = NoClass
    /\ classLeft = 1
    /\ fileLen = 0
    /\ toolOut = NoOut
    /\ SessIdle
    /\ CompIdle

\* a policy whose decision leans on the classification made before it
ClassifiedSticky(op, ok, location) ==
    /\ classLeft > 0
    /\ classLeft' = classLeft - 1
    /\ polOp' = op
    /\ polDecision' = IF ok \/ polDecision = "Allowed" THEN "Allowed" ELSE "Blocked"
    /\ polLocation' = IF ok \/ polDecision = "Allowed" THEN location ELSE <<>>
    /\ firstClass' =
          IF firstClass.op = "none"
          THEN [op |-> op, decision |-> polDecision', location |-> polLocation',
                again |-> FALSE]
          ELSE IF firstClass.op = op THEN [firstClass EXCEPT !.again = TRUE]
          ELSE firstClass
    /\ UNCHANGED <<inPath, fileLen, toolOut>>
    /\ UNCHANGED <<sessVars, compVars>>

\* one call of an entry point of the policy: its decision, and the location
\* it hands to the file system
Classified(op, ok, location) ==
    /\ classLeft > 0
    /\ classLeft' = classLeft - 1
    /\ polOp' = op
    /\ polDecision' = IF ok THEN "Allowed" ELSE "Blocked"
    /\ polLocation' = IF ok THEN location ELSE <<>>
    /\ firstClass' =
          IF firstClass.op = "none"
          THEN [op |-> op, decision |-> polDecision', location |-> polLocation',
                again |-> FALSE]
          ELSE IF firstClass.op = op THEN [firstClass EXCEPT !.again = TRUE]
          ELSE firstClass
    /\ UNCHANGED <<inPath, fileLen, toolOut>>
    /\ UNCHANGED <<sessVars, compVars>>

\* readDocFile(process.cwd(), path): fs.readFile(docPath.absolutePath)
ReadDocFile ==
    LET d == normalizePath(Cwd, inPath, "read")
    IN  Classified("read", d.ok, d.absolutePath)

\* prepareDocWrite then applyPendingWrite(process.cwd(), pending):
\* fs.writeFile(docPath.absolutePath) of the re-normalized pending.path
DocWrite ==
    LET d == normalizePath(Cwd, inPath, "write")
        a == normalizePath(Cwd, d.relativePath, "write")
    IN  Classified("write", d.ok /\ a.ok, a.absolutePath)

\* FileSystemService.writeFile(filePath): validateWrite, fs.outputFile(filePath)
ServiceWriteFile ==
    Classified("serviceWrite", validateWrite(Cwd, inPath), PathResolve(Cwd, inPath))

\* InvestigatorAgent read_file: fileSystem.readFile(path.resolve(cwd, args.path))
AgentReadFile ==
    Classified("agentRead", TRUE, PathResolve(Cwd, PathResolve(Cwd, inPath)))

NextPath == ReadDocFile \/ DocWrite \/ ServiceWriteFile \/ AgentReadFile

SpecPath == InitPath /\ [][NextPath]_vars

\* paths that are classified more than once
PureSegSeqs ==
    { <<S_docs, S_x>>, <<S_x>>, <<S_env>>, <<S_docs_old, S_x>>, <<DOTDOT, S_docs>>,
      <<S_proj, S_docs, S_x>>, <<S_git, S_x>> }

PurePaths == {RenderPath(a, s, t) : a \in BOOLEAN, s \in PureSegSeqs, t \in BOOLEAN}

InitPure ==
    /\ inPath \in PurePaths
    /\ polOp = "none"
    /\ polDecision = "none"
    /\ polLocation = <<>>
    /\ firstClass = NoClass
    /\ classLeft = MaxClassifications
    /\ fileLen = 0
    /\ toolOut = NoOut
    /\ SessIdle
    /\ CompIdle

SpecPure == InitPure /\ [][NextPath]_vars

----------------------------------------------------------------------------
(* Where a path lies, for the properties of the path policy *)

IsPrefixSeq(a, b) == Len(a) <= Len(b) /\ SubSeq(b, 1, Len(a)) = a

\* the directory names of an absolute path
Segments(loc) == SelectSeq(SplitSlash(loc), LAMBDA s : s # <<>>)

RootSegs == Segments(Cwd)

InsideRoot(loc) == IsPrefixSeq(RootSegs, Segments(loc))

\* the segments of loc below the project root
RelToRoot(loc) == SubSeq(Segments(loc), Len(RootSegs) + 1, Len(Segments(loc)))

BlockedDirs == {S_git, S_node_modules, S_dist, S_build, S_next, S_coverage}

BlockedEntries == {S_env, S_DS_Store}

\* loc is a blocked entry of the project, or lies in a blocked directory of it
UnderBlocked(loc) ==
    /\ InsideRoot(loc)
    /\ LET r == RelToRoot(loc)
       IN  /\ r # <<>>
           /\ \/ r[1] \in BlockedDirs
              \/ (Len(r) = 1 /\ r[1] \in BlockedEntries)

WriteDirs == {S_docs, S_pmx}

\* the file the path p names, seen from the project root
TrueLocation(p) == PathResolve(Cwd, p)

\* p names <root>/docs, <root>/.pmx or a file below one of them
NamesUnderWritePrefix(p) ==
    /\ InsideRoot(TrueLocation(p))
    /\ LET r == RelToRoot(TrueLocation(p))
       IN  r # <<>> /\ r[1] \in WriteDirs

\* p resolved segment by segment with the project root as the top: a ".."
\* that would climb above the root is dropped
RECURSIVE ClampSegs(_, _)
ClampSegs(segs, acc) ==
    IF segs = <<>> THEN acc
    ELSE ClampSegs(Tail(segs),
                   IF Head(segs) \in {<<>>, DOT} THEN acc
                   ELSE IF Head(segs) = DOTDOT
                        THEN (IF acc = <<>> THEN acc ELSE DropLast(acc))
                        ELSE Append(acc, Head(segs)))

Clamped(p) == ClampSegs(SplitSlash(p), <<>>)

----------------------------------------------------------------------------
(* Properties of the path policy, checked under SpecPath *)

\* C3: a read that the policy allows never touches a blocked entry of the
\* project: every path that designates .git/, node_modules/, dist/, build/,
\* .next/, coverage/, .env or .DS_Store is classified Blocked for read,
\* whatever ".." segments it carries.
C3_BlockedPrefixReadRefused ==
    (polOp = "read" /\ polDecision = "Allowed") => ~UnderBlocked(polLocation)

\* C4: every read or write the policy allows resolves to a location inside
\* the project root.
C4_AllowedAccessInsideRoot ==
    polDecision = "Allowed" => InsideRoot(polLocation)

C6_ServiceWriteOnlyToSafeLocations ==
    (polOp = "serviceWrite" /\ polDecision = "Allowed") =>
        /\ InsideRoot(polLocation)
        /\ LET r == RelToRoot(polLocation)
           IN  \/ (r # <<>> /\ r[1] \in WriteDirs)
               \/ r = <<S_PMX_md>>
               \/ r = <<S_README_md>>

----------------------------------------------------------------------------
(* File system calls of the write and read paths *)

\* path.dirname of an absolute path
DirName(loc) ==
    LET segs == Segments(loc)
    IN  <<SLASH>> \o JoinSlash(DropLast(segs))

\* fs.readFile(loc): the content, or "null" for a rejected promise
FsReadFile(d, loc) ==
    IF loc \in DOMAIN d /\ d[loc] \notin {"dir", "absent"} THEN d[loc] ELSE "null"

\* fs.mkdir(dirname, {recursive: true}) then fs.writeFile(loc, content):
\* ok = FALSE when either rejects (the parent is a file, the target is a
\* directory or lies outside the modelled tree)
FsMkdirAndWriteFile(d, loc, content) ==
    LET parent == DirName(loc)
        parentOk == parent = Cwd \/ (parent \in DOMAIN d /\ d[parent] \in {"dir", "absent"})
        made == IF parent \in DOMAIN d /\ d[parent] = "absent"
                THEN [d EXCEPT ![parent] = "dir"] ELSE d
    IN  IF ~parentOk THEN [ok |-> FALSE, disk |-> d]
        ELSE IF loc \in DOMAIN d /\ d[loc] # "dir"
             THEN [ok |-> TRUE, disk |-> [made EXCEPT ![loc] = content]]
             ELSE [ok |-> FALSE, disk |-> made]

\* the files of d below the directory root
FilesUnder(d, root) ==
    {l \in DOMAIN d : d[l] \notin {"dir", "absent"}
                      /\ IsPrefixSeq(Segments(root), Segments(l))}

\* a line printed by grep -r "pattern" . run in cwd for a match in the file l
GrepLine(l) == <<".", SLASH>> \o PathRelative(Cwd, l) \o <<":", "m">>

\* line.split(':')[0]
RECURSIVE BeforeColon(_)
BeforeColon(line) ==
    IF line = <<>> \/ Head(line) = ":" THEN <<>>
    ELSE <<Head(line)>> \o BeforeColon(Tail(line))

\* the test of the filter of searchFiles: no blocked prefix starts filePath
SearchLineAllowed(line) ==
    ~\E i \in 1..Len(BLOCKED_READ_PREFIXES) :
        StartsWith(BeforeColon(line), BLOCKED_READ_PREFIXES[i])

\* searchFiles(process.cwd(), pattern), hits being the files in which grep
\* finds the pattern: the lines that pass the filter
searchFiles(hits) == {line \in {GrepLine(l) : l \in hits} : SearchLineAllowed(line)}

\* the files the lines of a search result name
MatchedFiles(lines) == {PathResolve(Cwd, BeforeColon(line)) : line \in lines}

\* readDocFile(process.cwd(), path): the result text of the read tools
readDocFile(d, path) ==
    LET docPath == normalizePath(Cwd, path, "read")
    IN  IF ~docPath.ok THEN "Error: Access denied"
        ELSE IF FsReadFile(d, docPath.absolutePath) = "null" THEN "Error: Failed to read file"
        ELSE "content"

\* prepareDocWrite(process.cwd(), relativePath, newContent, reason)
prepareDocWrite(d, relativePath, newContent) ==
    LET docPath == normalizePath(Cwd, relativePath, "write")
    IN  [ok |-> docPath.ok,
         pending |-> [path |-> docPath.relativePath,
                      oldContent |-> FsReadFile(d, docPath.absolutePath),
                      newContent |-> newContent]]

\* an apply that reports success without the write reaching the disk
applyPendingWriteLost(d, pw) ==
    [ok |-> normalizePath(Cwd, pw.path, "write").ok, disk |-> d]

\* applyPendingWrite(process.cwd(), pending)
applyPendingWrite(d, pw) ==
    LET docPath == normalizePath(Cwd, pw.path, "write")
    IN  IF ~docPath.ok THEN [ok |-> FALSE, disk |-> d]
        ELSE FsMkdirAndWriteFile(d, docPath.absolutePath, pw.newContent)

\* a rejection that sends no text back
RejectionTextSilent(k) == ""

\* the result text of a write tool after any answer but approval
RejectionText(k) ==
    IF k = "repl" THEN "ERROR: User rejected the write operation."
    ELSE IF k = "feature" THEN "User rejected the write."
    ELSE "User denied write access"

\* a test that treats every answer but an explicit rejection as approval
WriteConfirmedUnlessRejected(status) == status # "rejected"

\* if (status === 'approved')
WriteConfirmed(status) == status = "approved"

----------------------------------------------------------------------------
(* The turn loops *)

\* a response of the reasoning service: the call fails, or returns n tool_calls
ServiceResponses ==
    {[fails |-> TRUE, n |-> 0]} \cup {[fails |-> FALSE, n |-> k] : k \in 0..MaxBatch}

\* the ids of the tool_calls of the serial-th response
ToolIds(serial, n) == [i \in 1..n |-> <<serial, i>>]

\* a time check that never ends the loop
TimeLimitNeverExceeded(e, m) == FALSE

\* Date.now() - startTime > config.maxTimeMs
TimeLimitExceeded(e, m) == e > m

\* a loop condition that lets one turn too many through
TurnsRemainOffByOne(t, m) == t <= m

\* while (turns < config.maxTurns)
TurnsRemain(t, m) == t < m

\* maxTurns of the investigation that investigate_codebase starts
NestedMaxTurns == 5

\* const maxTurns = 30 of InvestigatorAgent.investigate
AgentMaxTurns == 30

\* a prompt that returns whatever was chosen, 'show' included
PromptResolvesAlways(choice) == TRUE

\* promptForWriteConfirmation returns answer.choice unless it is 'show'
PromptResolves(choice) == choice # "show"

\* what the menu of promptForWriteConfirmation can end with: a choice, an
\* answer without a choice (a cancelled prompt), a rejected promise
GateAnswers == {"approved", "show", "rejected", "cancelled", "throws"}

\* a line handler that takes up every line
LineIgnoredNever(p) == FALSE

\* a guard that drops lines only while a confirmation is outstanding
LineIgnoredAtGate(p) == p = "gate"

\* if (isProcessing || !input) return: isProcessing is true from the start
\* of a turn to its end
LineIgnored(p) == p # "idle"

\* the sessions a command or handler of the REPL runs between rl.pause()
\* and the rl.resume() of its finally block (handleInvestigateCommand,
\* handleFeatureCommand, handlers.run_investigation, handlers.run_feature_flow)
CommandKinds == {"investigation", "feature"}

\* a command that resumes the input at the end of its try block only
CommandResumesInTry == paused' = IF pc' = "done" THEN FALSE ELSE paused

\* finally { rl.resume() } of the command that runs the session: the input
\* is resumed when the session returns and when it throws
CommandFinally == paused' = IF pc' \in {"done", "failed"} THEN FALSE ELSE paused

Init ==
    /\ PathIdle
    /\ CompIdle
    /\ kind \in {"repl", "investigation", "feature", "agent"}
    /\ pc = IF kind = "repl" THEN "idle" ELSE "loop"
    /\ messages = << Msg("system", <<>>, NoId) >>
    /\ calls = <<>>
    /\ idx = 0
    /\ turns = 0
    /\ maxTurns \in (IF kind = "repl" THEN {0}
                     ELSE IF kind = "agent" THEN {AgentMaxTurns} ELSE 1..MaxTurns)
    /\ roundTrips = 0
    /\ elapsed = 0
    /\ maxTimeMs = IF kind = "investigation" THEN MaxClock - 1 ELSE 0
    /\ disk \in InitialDisks
    /\ pending = NoPending
    /\ writeStatus = "none"
    /\ shownFull = FALSE
    /\ paused = (kind \in CommandKinds)
    /\ lastResult = "none"
    /\ lastTool = "none"
    /\ result = "none"
    /\ returned = NoReturn
    /\ initialMessageCount = 0
    /\ onlyToolTurns = TRUE
    /\ ledger = {}
    /\ onConfirm \in (IF kind = "agent" THEN BOOLEAN ELSE {FALSE})

\* the result texts with which the handlers and catch blocks report a failure
ToolErrors ==
    {"Error: Access denied", "Error: Failed to read file", "Error reading file",
     "Error preparing write", "Error writing file", "Error: read failed",
     "Error: Safety Violation", "Error: write failed", "Error: Tool not found or failed"}

\* a loop whose results come back in the reverse of the order requested
PushToolResultReversed(res) ==
    /\ messages' = Append(messages, Msg("tool", <<>>, calls[Len(calls) + 1 - idx]))
    /\ lastResult' = res
    /\ IF idx < Len(calls)
       THEN idx' = idx + 1 /\ pc' = "dispatch" /\ calls' = calls
       ELSE idx' = 0 /\ pc' = "loop" /\ calls' = <<>>

\* a loop in which a failed tool ends the session
PushToolResultOrThrow(res) ==
    IF res \in ToolErrors
    THEN /\ pc' = "failed"
         /\ lastResult' = res
         /\ UNCHANGED <<messages, calls, idx>>
    ELSE /\ messages' = Append(messages, Msg("tool", <<>>, calls[idx]))
         /\ lastResult' = res
         /\ IF idx < Len(calls)
            THEN idx' = idx + 1 /\ pc' = "dispatch" /\ calls' = calls
            ELSE idx' = 0 /\ pc' = "loop" /\ calls' = <<>>

\* messages.push({role: 'tool', tool_call_id: toolCall.id, ...}) and the step
\* of the for loop over the tool_calls
PushToolResult(res) ==
    /\ messages' = Append(messages, Msg("tool", <<>>, calls[idx]))
    /\ lastResult' = res
    /\ IF idx < Len(calls)
       THEN idx' = idx + 1 /\ pc' = "dispatch" /\ calls' = calls
       ELSE idx' = 0 /\ pc' = "loop" /\ calls' = <<>>

\* time passes while an investigation awaits the service or a tool (the
\* first await after startTime is taken is the first llm.chat)
Tick ==
    /\ kind = "investigation"
    /\ turns > 0
    /\ pc \in {"loop", "dispatch"}
    /\ elapsed < MaxClock
    /\ elapsed' = elapsed + 1
    /\ UNCHANGED <<kind, onConfirm, pc, messages, calls, idx, turns, maxTurns, roundTrips,
                   maxTimeMs, disk, pending, writeStatus, shownFull, paused,
                   lastResult, lastTool, result, returned, initialMessageCount,
                   onlyToolTurns>>
    /\ UNCHANGED ledger
    /\ UNCHANGED <<pathVars, compVars>>

----------------------------------------------------------------------------
(* core/investigator/engine.ts: runInvestigation *)

\* the while condition is false, or the time check breaks: the fallback return
RunInvestigationFallback ==
    /\ kind = "investigation"
    /\ pc = "loop"
    /\ ~TurnsRemain(turns, maxTurns) \/ TimeLimitExceeded(elapsed, maxTimeMs)
    /\ pc' = "done"
    /\ result' = "fallback"
    /\ returned' = FallbackSummary(kind)
    /\ UNCHANGED <<kind, onConfirm, messages, calls, idx, turns, maxTurns, roundTrips,
                   elapsed, maxTimeMs, disk, pending, writeStatus, shownFull,
                    lastResult, lastTool, initialMessageCount, onlyToolTurns>>
    /\ UNCHANGED ledger
    /\ CommandFinally
    /\ UNCHANGED <<pathVars, compVars>>

\* one iteration up to the for loop: turns++, llm.chat, push of the answer
RunInvestigationChat ==
    /\ kind = "investigation"
    /\ pc = "loop"
    /\ TurnsRemain(turns, maxTurns)
    /\ ~TimeLimitExceeded(elapsed, maxTimeMs)
    /\ turns' = turns + 1
    /\ roundTrips' = roundTrips + 1
    /\ lastResult' = "none"
    /\ lastTool' = "none"
    /\ writeStatus' = "none"
    /\ \E r \in ServiceResponses :
        IF r.fails
        THEN /\ pc' = "failed"
             /\ UNCHANGED <<messages, calls, idx, onlyToolTurns>>
        ELSE IF r.n = 0
        THEN /\ messages' =
                    IF turns' = maxTurns - 1
                    THEN messages \o <<Msg("assistant", <<>>, NoId), Msg("user", <<>>, NoId) >>
                    ELSE Append(messages, Msg("assistant", <<>>, NoId))
             /\ onlyToolTurns' = FALSE
             /\ UNCHANGED <<pc, calls, idx>>
        ELSE /\ messages' = Append(messages, Msg("assistant", ToolIds(turns', r.n), NoId))
             /\ calls' = ToolIds(turns', r.n)
             /\ idx' = 1
             /\ pc' = "dispatch"
             /\ UNCHANGED onlyToolTurns
    /\ UNCHANGED <<kind, onConfirm, maxTurns, elapsed, maxTimeMs, disk, pending, shownFull, 
                   result, returned, initialMessageCount>>
    /\ UNCHANGED ledger
    /\ CommandFinally
    /\ UNCHANGED <<pathVars, compVars>>

\* the requests of an investigation; given: args.identity of update_memory
\* is there
InvestigationRequests ==
    {[name |-> n, path |-> <<>>, given |-> FALSE] :
        n \in {"submit_report", "list_files", "search_files", "update_memory", "other"}}
    \cup {[name |-> "update_memory", path |-> <<>>, given |-> TRUE]}
    \cup {[name |-> "read_file", path |-> p, given |-> FALSE] : p \in ReadPaths}

\* MemoryManager.updateIdentity: load, then save (mkdir .pmx, writeFile
\* memory.json, a failure only logged)
updateIdentity(d) == FsMkdirAndWriteFile(d, L_memory, "memory").disk

\* the result text of the try block of the for loop
InvestigationToolResult(d, req) ==
    IF req.name = "read_file" THEN readDocFile(d, req.path)
    ELSE IF req.name = "list_files" THEN "listed"
    ELSE IF req.name = "search_files" THEN "matches"
    ELSE IF req.name = "update_memory"
    THEN (IF req.given THEN "Identity updated" ELSE "")
    ELSE ""

\* one pass of the for loop: JSON.parse, submit_report, the tool, the push
RunInvestigationTool ==
    /\ kind = "investigation"
    /\ pc = "dispatch"
    /\ \E req \in InvestigationRequests, parses \in BOOLEAN :
        /\ lastTool' = req.name
        /\ IF ~parses
           THEN /\ pc' = "failed"
                /\ lastResult' = "SyntaxError"
                /\ UNCHANGED <<messages, calls, idx, result, returned, onlyToolTurns>>
           ELSE IF req.name = "submit_report"
           THEN /\ pc' = "done"
                /\ result' = "report"
                /\ \E args \in ReportArgs : returned' = args
                /\ lastResult' = ""
                /\ onlyToolTurns' = FALSE
                /\ UNCHANGED <<messages, calls, idx>>
           ELSE /\ PushToolResult(InvestigationToolResult(disk, req))
                /\ UNCHANGED <<result, returned, onlyToolTurns>>
        /\ IF parses /\ req.name = "read_file" /\ lastResult' = "content"
           THEN ledger' = ledger \cup {normalizePath(Cwd, req.path, "read").absolutePath}
           ELSE IF parses /\ req.name = "search_files"
           THEN \E matched \in SUBSET MatchedFiles(searchFiles(FilesUnder(disk, Cwd))) :
                    ledger' = ledger \cup matched
           ELSE UNCHANGED ledger
        /\ disk' = IF parses /\ req.name = "update_memory" /\ req.given
                   THEN updateIdentity(disk) ELSE disk
    /\ UNCHANGED <<kind, onConfirm, turns, maxTurns, roundTrips, elapsed, maxTimeMs,
                   pending, writeStatus, shownFull, initialMessageCount>>
    /\ CommandFinally
    /\ UNCHANGED <<pathVars, compVars>>

----------------------------------------------------------------------------
(* core/scribe/engine.ts: runFeatureFlow *)

\* the while condition is false: return finalResult || {path: '', ...}
RunFeatureFlowFallback ==
    /\ kind = "feature"
    /\ pc = "loop"
    /\ ~TurnsRemain(turns, maxTurns)
    /\ pc' = "done"
    /\ result' = "fallback"
    /\ returned' = FallbackSummary(kind)
    /\ UNCHANGED <<kind, onConfirm, messages, calls, idx, turns, maxTurns, roundTrips,
                   elapsed, maxTimeMs, disk, pending, writeStatus, shownFull,
                    lastResult, lastTool, initialMessageCount, onlyToolTurns>>
    /\ UNCHANGED ledger
    /\ CommandFinally
    /\ UNCHANGED <<pathVars, compVars>>

\* one iteration up to the for loop: turns++, llm.chat, push of the answer
RunFeatureFlowChat ==
    /\ kind = "feature"
    /\ pc = "loop"
    /\ TurnsRemain(turns, maxTurns)
    /\ turns' = turns + 1
    /\ roundTrips' = roundTrips + 1
    /\ lastResult' = "none"
    /\ lastTool' = "none"
    /\ writeStatus' = "none"
    /\ \E r \in ServiceResponses :
        IF r.fails
        THEN /\ pc' = "failed"
             /\ UNCHANGED <<messages, calls, idx, onlyToolTurns>>
        ELSE IF r.n = 0
        THEN /\ messages' =
                    IF turns' = maxTurns - 1
                    THEN messages \o <<Msg("assistant", <<>>, NoId), Msg("user", <<>>, NoId) >>
                    ELSE Append(messages, Msg("assistant", <<>>, NoId))
             /\ UNCHANGED onlyToolTurns
             /\ UNCHANGED <<pc, calls, idx>>
        ELSE /\ messages' = Append(messages, Msg("assistant", ToolIds(turns', r.n), NoId))
             /\ calls' = ToolIds(turns', r.n)
             /\ idx' = 1
             /\ pc' = "dispatch"
             /\ UNCHANGED onlyToolTurns
    /\ UNCHANGED <<kind, onConfirm, maxTurns, elapsed, maxTimeMs, disk, pending, shownFull, 
                   result, returned, initialMessageCount>>
    /\ UNCHANGED ledger
    /\ CommandFinally
    /\ UNCHANGED <<pathVars, compVars>>

FeatureRequests ==
    {[name |-> "write_document", path |-> p, content |-> c] :
        p \in SessionPaths, c \in Contents}
    \cup {[name |-> n, path |-> <<>>, content |-> "null"] :
            n \in {"investigate_codebase", "other"}}

\* one pass of the for loop up to the confirmation prompt: JSON.parse; for
\* write_document runCritic (one more llm.chat) and prepareDocWrite; for
\* investigate_codebase a whole runInvestigation of up to NestedMaxTurns turns
RunFeatureFlowTool ==
    /\ kind = "feature"
    /\ pc = "dispatch"
    /\ \E req \in FeatureRequests, parses \in BOOLEAN :
        /\ lastTool' = req.name
        /\ IF ~parses
           THEN /\ pc' = "failed"
                /\ lastResult' = "SyntaxError"
                /\ UNCHANGED <<messages, calls, idx, roundTrips, pending,
                               writeStatus, shownFull>>
           ELSE IF req.name = "write_document"
           THEN /\ roundTrips' = roundTrips + 1
                /\ \E criticFails \in BOOLEAN :
                    LET w == prepareDocWrite(disk, req.path, req.content)
                    IN  IF criticFails \/ ~w.ok
                        THEN /\ PushToolResult("Error writing file")
                             /\ UNCHANGED <<pending, writeStatus, shownFull>>
                        ELSE /\ pending' = w.pending
                             /\ writeStatus' = "none"
                             /\ shownFull' = FALSE
                             /\ pc' = "gate"
                             /\ UNCHANGED <<messages, calls, idx, lastResult>>
           ELSE IF req.name = "investigate_codebase"
           THEN /\ \E n \in 1..NestedMaxTurns : roundTrips' = roundTrips + n
                /\ PushToolResult("Investigation Result")
                /\ UNCHANGED <<pending, writeStatus, shownFull>>
           ELSE /\ PushToolResult("")
                /\ UNCHANGED <<roundTrips, pending, writeStatus, shownFull>>
    /\ UNCHANGED <<kind, onConfirm, turns, maxTurns, elapsed, maxTimeMs, disk, result,
                   returned, initialMessageCount, onlyToolTurns>>
    /\ UNCHANGED ledger
    /\ CommandFinally
    /\ UNCHANGED <<pathVars, compVars>>

\* the rest of the write_document branch, once promptForWriteConfirmation
\* has returned status, or has thrown (finalResult.path is args.filename,
\* which path.normalize left as it was for every filename of FeatureRequests
\* that reaches the confirmation)
RunFeatureFlowWrite ==
    /\ kind = "feature"
    /\ pc = "gate"
    /\ \E status \in GateAnswers :
        /\ PromptResolves(status)
        /\ writeStatus' = status
        /\ IF status = "throws"
           THEN /\ PushToolResult("Error writing file")
                /\ UNCHANGED <<disk, result, returned>>
           ELSE IF WriteConfirmed(status)
           THEN LET a == applyPendingWrite(disk, pending)
                IN  /\ disk' = a.disk
                    /\ IF a.ok
                       THEN /\ pc' = "done"
                            /\ result' = "written"
                            /\ returned' = FeatureResult(pending.path, "Created PRD")
                            /\ lastResult' = "Successfully wrote"
                            /\ UNCHANGED <<messages, calls, idx>>
                       ELSE /\ PushToolResult("Error writing file")
                            /\ UNCHANGED <<result, returned>>
           ELSE /\ PushToolResult(RejectionText(kind))
                /\ UNCHANGED <<disk, result, returned>>
    /\ pending' = NoPending
    /\ shownFull' = FALSE
    /\ UNCHANGED <<kind, onConfirm, turns, maxTurns, roundTrips, elapsed, maxTimeMs, 
                   lastTool, initialMessageCount, onlyToolTurns>>
    /\ UNCHANGED ledger
    /\ CommandFinally
    /\ UNCHANGED <<pathVars, compVars>>

----------------------------------------------------------------------------
(* cli/ui.ts: promptForWriteConfirmation *)

\* the answer 'show': the full content is printed and the menu asked again
PromptShowFullContent ==
    /\ kind \in {"repl", "feature"}
    /\ pc = "gate"
    /\ \E choice \in GateAnswers :
        /\ ~PromptResolves(choice)
        /\ writeStatus' = choice
    /\ shownFull' = TRUE
    /\ UNCHANGED <<kind, onConfirm, pc, messages, calls, idx, turns, maxTurns, roundTrips,
                   elapsed, maxTimeMs, disk, pending, paused, lastResult, lastTool,
                   result, returned, initialMessageCount, onlyToolTurns>>
    /\ UNCHANGED ledger
    /\ UNCHANGED <<pathVars, compVars>>

----------------------------------------------------------------------------
(* cli/repl.ts: the line handler of startRepl, and cli/tools handlers *)

\* the catch block of the line handler: pop the user message if nothing
\* was appended after it
ReplCatch ==
    /\ messages' = IF Len(messages) = initialMessageCount
                   THEN DropLast(messages) ELSE messages
    /\ pc' = "idle"
    /\ calls' = <<>>
    /\ idx' = 0

\* a non-empty line that is no command arrives: dropped while isProcessing,
\* else it starts a turn
ReplLine ==
    /\ kind = "repl"
    /\ roundTrips < MaxReplCalls
    /\ IF LineIgnored(pc)
       THEN UNCHANGED <<messages, initialMessageCount, pc>>
       ELSE /\ messages' = Append(messages, Msg("user", <<>>, NoId))
            /\ initialMessageCount' = Len(messages) + 1
            /\ pc' = "loop"
    /\ UNCHANGED <<kind, onConfirm, calls, idx, turns, maxTurns, roundTrips, elapsed, maxTimeMs,
                   disk, pending, writeStatus, shownFull, paused, lastResult, lastTool,
                   result, returned, onlyToolTurns>>
    /\ UNCHANGED ledger
    /\ UNCHANGED <<pathVars, compVars>>

\* the commands of the switch: /config runs handleConfigCommand, whose
\* saveGlobalConfig writes the global file with no try around it; /help
\* only prints
Commands == {"/help", "/config"}

\* the command's handler can throw out of the line handler
CommandCanThrow(command) == command = "/config"

\* a line that starts with '/' arrives: dropped while isProcessing, else
\* isProcessing = true, the switch, isProcessing = false and the prompt; an
\* exception of the awaited handler ends the line handler before the flag
\* is cleared
ReplCommand ==
    /\ kind = "repl"
    /\ IF LineIgnored(pc)
       THEN UNCHANGED pc
       ELSE \E command \in Commands, throws \in BOOLEAN :
                pc' = IF throws /\ CommandCanThrow(command) THEN "rejected" ELSE "idle"
    /\ UNCHANGED <<kind, onConfirm, messages, calls, idx, turns, maxTurns, roundTrips,
                   elapsed, maxTimeMs, disk, pending, writeStatus, shownFull, paused,
                   lastResult, lastTool, result, returned, initialMessageCount,
                   onlyToolTurns>>
    /\ UNCHANGED ledger
    /\ UNCHANGED <<pathVars, compVars>>

\* one iteration of while (keepGoing) up to the for loop
ReplChat ==
    /\ kind = "repl"
    /\ pc = "loop"
    /\ roundTrips < MaxReplCalls
    /\ roundTrips' = roundTrips + 1
    /\ lastResult' = "none"
    /\ lastTool' = "none"
    /\ writeStatus' = "none"
    /\ \E r \in ServiceResponses :
        IF r.fails
        THEN /\ ReplCatch
             /\ UNCHANGED onlyToolTurns
        ELSE IF r.n = 0
        THEN /\ messages' = Append(messages, Msg("assistant", <<>>, NoId))
             /\ pc' = "idle"
             /\ UNCHANGED onlyToolTurns
             /\ UNCHANGED <<calls, idx>>
        ELSE /\ messages' = Append(messages, Msg("assistant", ToolIds(roundTrips', r.n), NoId))
             /\ calls' = ToolIds(roundTrips', r.n)
             /\ idx' = 1
             /\ pc' = "dispatch"
             /\ UNCHANGED onlyToolTurns
    /\ UNCHANGED <<kind, onConfirm, turns, maxTurns, elapsed, maxTimeMs, disk, pending,
                   shownFull, paused, result, returned, initialMessageCount>>
    /\ UNCHANGED ledger
    /\ UNCHANGED <<pathVars, compVars>>

ReplRequests ==
    {[name |-> "write_file", path |-> p, content |-> c] :
        p \in SessionPaths, c \in Contents}
    \cup {[name |-> "read_file", path |-> p, content |-> "null"] : p \in ReadPaths}
    \cup {[name |-> n, path |-> <<>>, content |-> "null"] :
            n \in {"list_files", "run_investigation", "run_feature_flow", "other"}}

\* the result text of the handlers that ask nothing of the human; the
\* sessions run_investigation and run_feature_flow start are the ones the
\* kinds "investigation" and "feature" follow step by step, here only
\* their returned text enters the history
HandlerResult(d, req) ==
    IF req.name = "read_file"
    THEN (IF readDocFile(d, req.path) = "content" THEN "content" ELSE "Error reading file")
    ELSE IF req.name = "list_files" THEN "listed"
    ELSE IF req.name = "run_investigation" THEN "Investigation Complete"
    ELSE IF req.name = "run_feature_flow" THEN "Scribe Flow Complete"
    ELSE "Error: Unknown tool"

\* one pass of the for loop up to the confirmation prompt: JSON.parse and
\* handleToolCall; write_file pauses the input and prepares the write
ReplTool ==
    /\ kind = "repl"
    /\ pc = "dispatch"
    /\ \E req \in ReplRequests, parses \in BOOLEAN :
        /\ lastTool' = req.name
        /\ IF ~parses
           THEN /\ ReplCatch
                /\ lastResult' = "SyntaxError"
                /\ UNCHANGED <<pending, writeStatus, shownFull, paused>>
           ELSE IF req.name = "write_file"
           THEN LET w == prepareDocWrite(disk, req.path, req.content)
                IN  IF ~w.ok
                    THEN /\ PushToolResult("Error preparing write")
                         /\ UNCHANGED <<pending, writeStatus, shownFull, paused>>
                    ELSE /\ paused' = TRUE
                         /\ pending' = w.pending
                         /\ writeStatus' = "none"
                         /\ shownFull' = FALSE
                         /\ pc' = "gate"
                         /\ UNCHANGED <<messages, calls, idx, lastResult>>
           ELSE /\ PushToolResult(HandlerResult(disk, req))
                /\ UNCHANGED <<pending, writeStatus, shownFull, paused>>
    /\ UNCHANGED <<kind, onConfirm, turns, maxTurns, roundTrips, elapsed, maxTimeMs, disk,
                   result, returned, initialMessageCount, onlyToolTurns>>
    /\ UNCHANGED ledger
    /\ UNCHANGED <<pathVars, compVars>>

\* the rest of handlers.write_file, once promptForWriteConfirmation has
\* returned status, or has thrown; then the push of the tool message
ReplWriteFile ==
    /\ kind = "repl"
    /\ pc = "gate"
    /\ \E status \in GateAnswers :
        /\ PromptResolves(status)
        /\ writeStatus' = status
        /\ IF status = "throws"
           THEN /\ PushToolResult("Error preparing write")
                /\ UNCHANGED disk
           ELSE IF WriteConfirmed(status)
           THEN LET a == applyPendingWrite(disk, pending)
                IN  /\ disk' = a.disk
                    /\ PushToolResult(IF a.ok THEN "Successfully wrote"
                                      ELSE "Error preparing write")
           ELSE /\ PushToolResult(RejectionText(kind))
                /\ UNCHANGED disk
    /\ paused' = FALSE
    /\ pending' = NoPending
    /\ shownFull' = FALSE
    /\ UNCHANGED <<kind, onConfirm, turns, maxTurns, roundTrips, elapsed, maxTimeMs, lastTool,
                   result, returned, initialMessageCount, onlyToolTurns>>
    /\ UNCHANGED ledger
    /\ UNCHANGED <<pathVars, compVars>>

----------------------------------------------------------------------------
(* services/InvestigatorAgent.ts: investigate *)

\* one iteration up to the for loop: turns++, chatCompletionWithTools, push
\* of the answer; a null response and an answer without tool_calls return
AgentChat ==
    /\ kind = "agent"
    /\ pc = "loop"
    /\ roundTrips < MaxReplCalls
    /\ lastResult' = "none"
    /\ lastTool' = "none"
    /\ writeStatus' = "none"
    /\ IF ~TurnsRemain(turns, maxTurns)
       THEN /\ pc' = "done"
            /\ result' = "fallback"
            /\ returned' = FallbackSummary(kind)
            /\ UNCHANGED <<messages, calls, idx, turns, roundTrips>>
       ELSE /\ turns' = turns + 1
            /\ roundTrips' = roundTrips + 1
            /\ \E r \in ServiceResponses, isNull \in BOOLEAN :
                IF r.fails
                THEN /\ pc' = "failed"
                     /\ UNCHANGED <<messages, calls, idx, result, returned>>
                ELSE IF isNull
                THEN /\ pc' = "done"
                     /\ result' = "no response"
                     /\ returned' = Returned("Failed to get response from LLM.", "", {})
                     /\ UNCHANGED <<messages, calls, idx>>
                ELSE IF r.n = 0
                THEN /\ messages' = Append(messages, Msg("assistant", <<>>, NoId))
                     /\ pc' = "done"
                     /\ result' = "text"
                     /\ \E content \in {"the answer", ""} :
                         returned' = Returned(IF content = "" THEN "Investigation complete."
                                              ELSE content, "", {})
                     /\ UNCHANGED <<calls, idx>>
                ELSE /\ messages' = Append(messages, Msg("assistant", ToolIds(turns', r.n), NoId))
                     /\ calls' = ToolIds(turns', r.n)
                     /\ idx' = 1
                     /\ pc' = "dispatch"
                     /\ UNCHANGED <<result, returned>>
    /\ UNCHANGED <<kind, onConfirm, maxTurns, elapsed, maxTimeMs, disk, pending, shownFull, paused,
                   initialMessageCount, onlyToolTurns>>
    /\ UNCHANGED ledger
    /\ UNCHANGED <<pathVars, compVars>>

AgentRequests ==
    {[name |-> "write_file", path |-> p, content |-> c] :
        p \in SessionPaths, c \in Contents}
    \cup {[name |-> "read_file", path |-> p, content |-> "null"] : p \in ReadPaths}
    \cup {[name |-> n, path |-> <<>>, content |-> "null"] :
            n \in {"list_files", "search_files", "other"}}

\* the result text of the branches of the try block that ask nothing of the
\* human; a name that is none of the agent's tools goes to mcpService.callTool
AgentToolResult(d, req) ==
    IF req.name = "read_file"
    THEN (IF FsReadFile(d, PathResolve(Cwd, PathResolve(Cwd, req.path))) = "null"
          THEN "Error: read failed" ELSE "content")
    ELSE IF req.name = "list_files" THEN "listed"
    ELSE IF req.name = "search_files" THEN "Search not implemented"
    ELSE "Error: Tool not found or failed"

\* a write_file branch that asks for confirmation whether or not a callback
\* was handed in
CallbackAssumed(cb) == TRUE

\* if (onConfirm): the callback parameter of investigate is defined
CallbackGiven(cb) == cb

\* one pass of the for loop up to onConfirm: JSON.parse, then the tool
AgentTool ==
    /\ kind = "agent"
    /\ pc = "dispatch"
    /\ \E req \in AgentRequests, parses \in BOOLEAN :
        /\ lastTool' = req.name
        /\ IF ~parses
           THEN /\ pc' = "failed"
                /\ lastResult' = "SyntaxError"
                /\ UNCHANGED <<messages, calls, idx, pending, writeStatus>>
           ELSE IF req.name = "write_file"
           THEN IF CallbackGiven(onConfirm)
                THEN /\ pending' = [path |-> req.path, oldContent |-> "null",
                                    newContent |-> req.content]
                     /\ writeStatus' = "none"
                     /\ pc' = "gate"
                     /\ UNCHANGED <<messages, calls, idx, lastResult>>
                ELSE /\ PushToolResult("Write not supported in this mode")
                     /\ UNCHANGED <<pending, writeStatus>>
           ELSE /\ PushToolResult(AgentToolResult(disk, req))
                /\ UNCHANGED <<pending, writeStatus>>
    /\ UNCHANGED <<kind, onConfirm, turns, maxTurns, roundTrips, elapsed, maxTimeMs, disk, shownFull,
                   paused, result, returned, initialMessageCount, onlyToolTurns>>
    /\ UNCHANGED ledger
    /\ UNCHANGED <<pathVars, compVars>>

\* the rest of the write_file branch, once onConfirm has resolved:
\* fileSystem.writeFile (validateWrite, fs.outputFile) only after approval
AgentWriteFile ==
    /\ kind = "agent"
    /\ pc = "gate"
    /\ \E approved \in BOOLEAN :
        /\ writeStatus' = IF approved THEN "approved" ELSE "rejected"
        /\ IF approved
           THEN LET filePath == PathResolve(Cwd, pending.path)
                    a == FsMkdirAndWriteFile(disk, filePath, pending.newContent)
                IN  IF ~validateWrite(Cwd, filePath)
                    THEN /\ PushToolResult("Error: Safety Violation")
                         /\ UNCHANGED disk
                    ELSE /\ disk' = a.disk
                         /\ PushToolResult(IF a.ok THEN "File written successfully"
                                           ELSE "Error: write failed")
           ELSE /\ PushToolResult(RejectionText(kind))
                /\ UNCHANGED disk
    /\ pending' = NoPending
    /\ UNCHANGED <<kind, onConfirm, turns, maxTurns, roundTrips, elapsed, maxTimeMs, shownFull, paused,
                   lastTool, result, returned, initialMessageCount, onlyToolTurns>>
    /\ UNCHANGED ledger
    /\ UNCHANGED <<pathVars, compVars>>

----------------------------------------------------------------------------

Next ==
    \/ Tick
    \/ RunInvestigationFallback
    \/ RunInvestigationChat
    \/ RunInvestigationTool
    \/ RunFeatureFlowFallback
    \/ RunFeatureFlowChat
    \/ RunFeatureFlowTool
    \/ RunFeatureFlowWrite
    \/ PromptShowFullContent
    \/ ReplLine
    \/ ReplCommand
    \/ ReplChat
    \/ ReplTool
    \/ ReplWriteFile
    \/ AgentChat
    \/ AgentTool
    \/ AgentWriteFile

Spec == Init /\ [][Next]_vars

\* the session under a scheduler that lets every awaited call of the REPL
\* that can return do so: the reasoning service answers, the handlers end,
\* the human answers the confirmation
SpecLive ==
    /\ Init
    /\ [][Next]_vars
    /\ WF_vars(ReplChat)
    /\ WF_vars(ReplTool)
    /\ WF_vars(ReplWriteFile)

----------------------------------------------------------------------------
(* Properties of the sessions, checked under Spec *)

\* the file a PendingWrite is applied to
PendingLocation(pw) == PathResolve(Cwd, pw.path)

WriteErrors == {"Error preparing write", "Error writing file"}

\* this step belongs to a write tool call that goes through the gate: it
\* takes the request up, or it is a step at the confirmation
GatedWriteCallStep ==
    \/ pc = "gate"
    \/ pc = "dispatch" /\ lastTool' \in {"write_file", "write_document"}

\* C1: a confirmation-gated write tool call (REPL write_file, feature-flow
\* write_document) changes the disk only in the step in which the human's
\* answer is approval: after any other answer, and in every other step of
\* such a call, the files are as they were.
C1_NoWriteWithoutApproval ==
    [][(GatedWriteCallStep /\ disk' # disk) =>
          (pc = "gate" /\ writeStatus' = "approved")]_vars

\* a write of a new file was rejected and the file does not exist
C1_Witness ==
    /\ writeStatus = "rejected"
    /\ lastResult = "ERROR: User rejected the write operation."
    /\ disk[L_docs_x] = "absent"

\* C2 (as stated): after the human approves a PendingWrite the file at the
\* pending path holds exactly newContent and the call returns success.
C2_ApprovedWriteAlwaysLands ==
    [][(kind \in {"repl", "feature"} /\ pc = "gate" /\ writeStatus' = "approved") =>
          /\ disk'[PendingLocation(pending)] = pending.newContent
          /\ lastResult' = "Successfully wrote"]_vars

\* C2 (amended): when a write tool call ends, success is returned only if
\* the human approved and the file at the pending path holds exactly
\* newContent; after an approval the call either does that, or the file
\* system refused the write, the call returns an error and no file changed.
C2_ApprovedWriteLandsOrFails ==
    [][(kind \in {"repl", "feature"} /\ pc = "gate" /\ pc' # "gate") =>
          /\ lastResult' = "Successfully wrote" =>
                /\ writeStatus' = "approved"
                /\ disk'[PendingLocation(pending)] = pending.newContent
          /\ writeStatus' = "approved" =>
                \/ /\ lastResult' = "Successfully wrote"
                   /\ disk'[PendingLocation(pending)] = pending.newContent
                \/ /\ lastResult' \in WriteErrors
                   /\ disk' = disk]_vars

\* an approved write has replaced the old content of docs/x
C2_Witness ==
    /\ writeStatus = "approved"
    /\ lastResult = "Successfully wrote"
    /\ disk[L_docs_x] = "new"

\* the session is at the point where it calls the reasoning service next
AboutToCall ==
    /\ pc = "loop"
    /\ kind = "investigation" =>
          (TurnsRemain(turns, maxTurns) /\ ~TimeLimitExceeded(elapsed, maxTimeMs))
    /\ kind = "feature" => TurnsRemain(turns, maxTurns)

\* the tool messages of msgs that answer the request id
Answers(msgs, id) == {j \in DOMAIN msgs : msgs[j].role = "tool" /\ msgs[j].id = id}

\* C7: at every call of the reasoning service, each request of every
\* assistant message of the history has exactly one tool message with its id.
C7_EveryRequestAnsweredBeforeNextCall ==
    AboutToCall =>
        \A i \in DOMAIN messages :
            \A k \in DOMAIN messages[i].ids :
                Cardinality(Answers(messages, messages[i].ids[k])) = 1

\* C8: the round-trips made to the reasoning service for a session never
\* exceed the session's configured turn budget.
C8_RoundTripsWithinTurnBudget ==
    kind \in {"investigation", "feature"} => roundTrips <= maxTurns

----------------------------------------------------------------------------
(* Properties of termination and tool dispatch, checked under Spec *)

\* this step is a round-trip whose response has no tool_calls
TextResponseReceived ==
    /\ roundTrips' = roundTrips + 1
    /\ Len(messages') > Len(messages)
    /\ messages'[Len(messages) + 1] = Msg("assistant", <<>>, NoId)

\* C11: whenever a response of the reasoning service has no tool requests,
\* the investigation ends on that turn and its result is the response's
\* text (so with a budget of 1 turn: the text, after 1 round-trip).
C11_TextResponseEndsSession ==
    [][(kind \in {"investigation", "agent"} /\ TextResponseReceived) =>
          (pc' = "done" /\ result' = "text")]_vars

\* the requests of the current batch that the for loop has taken up
TakenUp == {k \in DOMAIN calls : k <= idx}

\* C12: when a batch contains submit_report the session ends with that
\* call's arguments as its result, and every other request of the batch
\* has been executed as well.
C12_ReportEndsSessionRestOfBatchExecuted ==
    (pc = "done" /\ result = "report") =>
        /\ returned \in ReportArgs
        /\ TakenUp = DOMAIN calls

\* C13: an investigation ends by exactly one of report submission, plain
\* text answer or budget exhaustion, and the value it returns tells which:
\* the value a budget exhaustion returns is returned for no other reason.
C13_ResultTellsHowSessionEnded ==
    (kind = "investigation" /\ pc = "done") =>
        /\ result \in {"report", "text", "fallback"}
        /\ returned = FallbackSummary(kind) => result = "fallback"

\* this step finishes the request calls[idx], or ends the batch at it
RequestFinishes ==
    /\ pc \in {"dispatch", "gate"}
    /\ pc' # "gate"
    /\ idx' # idx \/ pc' # pc

\* the tool message for the request being processed is appended
RequestAnswered == messages' = Append(messages, Msg("tool", <<>>, calls[idx]))

C15_MalformedArgumentsBecomeToolResult ==
    [][(pc = "dispatch" /\ lastResult' = "SyntaxError") =>
          (RequestAnswered /\ pc' \in {"dispatch", "loop"})]_vars

\* the result texts that label the requested tool as unknown
UnknownToolTexts == {"Error: Unknown tool", "Error: Tool not found or failed"}

\* C16: a request that names a tool outside the registry (well-formed
\* arguments) is answered with a text that labels the tool as unknown;
\* nothing is thrown and no file changes.
C16_UnknownToolLabelled ==
    [][(RequestFinishes /\ lastTool' = "other" /\ lastResult' # "SyntaxError") =>
          /\ lastResult' \in UnknownToolTexts
          /\ RequestAnswered
          /\ disk' = disk]_vars

\* the write policy that guards the session's write tool accepts the path
PolicyAllowsWrite(k, path) ==
    IF k = "agent" THEN validateWrite(Cwd, PathResolve(Cwd, path))
    ELSE normalizePath(Cwd, path, "write").ok

\* C17: the human is asked to confirm a write only when its path is inside
\* the write allowlist: for a path outside it the Confirmation Gate is
\* never invoked.
C17_GateOnlyForAllowedPaths ==
    pc = "gate" => PolicyAllowsWrite(kind, pending.path)

\* the result texts that tell the reasoning service the write was refused
\* by the human and so not carried out
RejectionTexts ==
    {"ERROR: User rejected the write operation.", "User rejected the write.",
     "User denied write access"}

C19_NoInputWhileConfirming ==
    [][(kind = "repl" /\ pc = "gate") =>
          /\ paused
          /\ roundTrips' = roundTrips
          /\ pc' = "gate" => messages' = messages
          /\ pc' # "gate" => RequestAnswered]_vars

\* a confirmation is outstanding in the REPL while lines can still arrive
C19_Witness ==
    /\ kind = "repl"
    /\ pc = "gate"
    /\ paused
    /\ pending # NoPending
    /\ roundTrips < MaxReplCalls

\* C20 (as stated): promptForWriteConfirmation resolves only on an explicit
\* approve or reject choice; without one (a cancelled or aborted prompt
\* included) the write call stays at the confirmation.
C20_GateResolvesOnlyOnExplicitChoice ==
    [][(kind \in {"repl", "feature"} /\ pc = "gate" /\ pc' # "gate") =>
          writeStatus' \in {"approved", "rejected"}]_vars

\* C20 (amended): the answer 'show' re-asks and changes nothing; the
\* confirmation ends with an approve or reject choice, or with a cancelled
\* or aborted prompt, and every ending but the approve choice leaves the
\* files as they were and gives the request a rejection or error text.
C20_GateNeverApprovesUnasked ==
    [][(kind \in {"repl", "feature"} /\ pc = "gate") =>
          /\ writeStatus' = "show" =>
                /\ pc' = "gate"
                /\ shownFull'
                /\ pending' = pending /\ messages' = messages /\ disk' = disk
          /\ pc' # "gate" =>
                /\ writeStatus' \in {"approved", "rejected", "cancelled", "throws"}
                /\ writeStatus' # "approved" =>
                      /\ disk' = disk
                      /\ lastResult' \in RejectionTexts \cup WriteErrors]_vars

\* a cancelled prompt has ended a write of the REPL as a rejection
C20_Witness ==
    /\ kind = "repl"
    /\ writeStatus = "cancelled"
    /\ lastResult = RejectionText("repl")
    /\ messages[Len(messages)].role = "tool"
    /\ pending = NoPending

----------------------------------------------------------------------------
(* Properties of failures, history and evidence, checked under Spec *)

\* this step is a call of the loop to the reasoning service that brought no
\* message back: the call threw, or resolved to no response
ServiceCallFailed ==
    /\ pc = "loop"
    /\ roundTrips' = roundTrips + 1
    /\ ~(/\ Len(messages') > Len(messages)
         /\ messages'[Len(messages) + 1].role = "assistant")

\* C21: a failed call of the reasoning service is not retried; it ends the
\* session with an error thrown to the caller, and nothing is handed back
\* as a return value that could pass for an answer or for the
\* budget-exhaustion result.
C21_ServiceFailureIsExplicitError ==
    [][(kind \in {"investigation", "feature", "agent"} /\ ServiceCallFailed) =>
          (pc' = "failed" /\ returned' = NoReturn)]_vars

\* the turn that the user message at position i started ended with a text
\* answer before position j (the only way a turn of the REPL ends without
\* the catch block)
TurnCompleted(msgs, i, j) ==
    \E k \in (i + 1)..(j - 1) : msgs[k] = Msg("assistant", <<>>, NoId)

\* C22: after a turn of the REPL has failed, its user message is gone from
\* the history: every user message that stands before a later user message
\* belongs to a turn that completed, so the history sent for a new line
\* never carries a failed turn's user message alongside the new one.
C22_FailedTurnUserMessageNotKept ==
    kind = "repl" =>
        \A i, j \in DOMAIN messages :
            (i < j /\ messages[i].role = "user" /\ messages[j].role = "user") =>
                TurnCompleted(messages, i, j)

\* C24: the message history is append-only: in every step the history
\* before the step is a prefix of the history after it.
C24_HistoryAppendOnly ==
    [][IsPrefixSeq(messages, messages')]_vars

----------------------------------------------------------------------------
(* Purity of the path policy, checked under SpecPure *)

----------------------------------------------------------------------------
(* Order of execution, evidence and read results, checked under Spec *)

\* the positions of the assistant messages before position i
AssistantsBefore(msgs, i) == {a \in 1..(i - 1) : msgs[a].role = "assistant"}

\* the assistant message that the message at position i follows
AskedAt(msgs, i) ==
    CHOOSE a \in AssistantsBefore(msgs, i) :
        \A b \in AssistantsBefore(msgs, i) : b <= a

\* C25: the requests of one assistant turn are processed one at a time in
\* the order requested: the tool messages that follow an assistant message
\* answer its requests 1, 2, ... in that order, and while request idx is
\* being processed (a confirmation included) exactly the requests before
\* it have their tool messages and none after it has been started.
C25_RequestsProcessedInOrder ==
    /\ \A i \in DOMAIN messages :
          messages[i].role = "tool" =>
              /\ AssistantsBefore(messages, i) # {}
              /\ LET a == AskedAt(messages, i)
                 IN  /\ i - a <= Len(messages[a].ids)
                     /\ messages[i].id = messages[a].ids[i - a]
    /\ pc \in {"dispatch", "gate"} =>
          /\ idx \in 1..Len(calls)
          /\ Len(messages) - idx + 1 \in DOMAIN messages
          /\ messages[Len(messages) - idx + 1] = Msg("assistant", calls, NoId)

\* the second request of a batch is taken up after the first was answered,
\* the first having gone through a confirmation
C25_Witness ==
    /\ pc = "dispatch"
    /\ idx = 2
    /\ writeStatus \in {"approved", "rejected"}
    /\ messages[Len(messages)] = Msg("tool", <<>>, calls[1])

\* C26: every evidence item of an investigation's result names a file on
\* which a read or a search of that session succeeded before.
C26_EvidenceOnlyFromSuccessfulReads ==
    (kind = "investigation" /\ pc = "done") =>
        \A e \in returned.evidence : PathResolve(Cwd, e) \in ledger

----------------------------------------------------------------------------
(* The file-system tools on a project tree: readDocFile, listDocFiles and  *)
(* searchFiles of core/fsTools.ts, readFile and listDir of                 *)
(* FileSystemService                                                       *)

L_env == Cwd \o <<SLASH>> \o S_env

L_git == Cwd \o <<SLASH>> \o S_git

L_git_x == L_git \o <<SLASH>> \o S_x

FsLocations == {L_docs, L_docs_x, L_x, L_env, L_git, L_git_x}

\* project trees: docs/ and x, with or without docs/x, .env, .git/ and .git/x
FsDisks ==
    {d \in [FsLocations -> {"dir", "absent", "old"}] :
        /\ d[L_docs] = "dir" /\ d[L_docs_x] \in {"absent", "old"} /\ d[L_x] = "old"
        /\ d[L_env] \in {"absent", "old"}
        /\ d[L_git] \in {"absent", "dir"}
        /\ d[L_git_x] \in {"absent", "old"}
        /\ d[L_git] = "absent" => d[L_git_x] = "absent"}

\* const MAX_CHARS = 10000 of readDocFile
MAX_CHARS == 10000

\* content.length > 10000 of FileSystemService.readFile
ServiceMaxChars == 10000

\* length of the fixed part of readDocFile's truncation marker
DocMarkerLen == 90

\* length of FileSystemService.readFile's truncation marker
ServiceMarkerLen == 74

\* lengths of file contents: empty, short, around the limit, far above it
ContentLengths ==
    {0, 1, MAX_CHARS - 1, MAX_CHARS, MAX_CHARS + 1, 2 * MAX_CHARS}

\* the paths the tools are called with
FsSegSeqs ==
    { <<DOT>>, <<S_docs>>, <<S_docs, S_x>>, <<S_x>>, <<S_env>>, <<S_git>>,
      <<S_git, S_x>>, <<S_docs, DOTDOT>> }

FsPaths ==
    {RenderPath(FALSE, s, t) : s \in FsSegSeqs, t \in BOOLEAN}
    \cup {RenderPath(TRUE, <<S_proj>> \o s, FALSE) : s \in {<<>>, <<S_git>>, <<S_env>>}}

\* String(content.length).length
RECURSIVE Digits(_)
Digits(n) == IF n < 10 THEN 1 ELSE 1 + Digits(n \div 10)

\* content.slice(0, k).length
SliceLen(n, k) == IF n < k THEN n ELSE k

\* a size test that also cuts a file of exactly the limit
ExceedsOrReaches(n, limit) == n >= limit

\* content.length > MAX_CHARS
Exceeds(n, limit) == n > limit

\* the content of readDocFile's result for a file of n characters
DocContent(loc, n) ==
    IF Exceeds(n, MAX_CHARS)
    THEN Text(loc, SliceLen(n, MAX_CHARS), DocMarkerLen + Digits(n))
    ELSE Text(loc, n, 0)

\* the result of FileSystemService.readFile(filePath) for a file of n characters
ServiceContent(loc, n) ==
    IF Exceeds(n, ServiceMaxChars)
    THEN Text(loc, SliceLen(n, ServiceMaxChars), ServiceMarkerLen)
    ELSE Text(loc, n, 0)

\* the start of a tool call in the machine of the file-system tools
FsCall(op) ==
    /\ classLeft > 0
    /\ classLeft' = classLeft - 1
    /\ polOp' = op
    /\ UNCHANGED <<inPath, fileLen, firstClass>>
    /\ UNCHANGED <<sessVars, compVars>>

\* readDocFile(process.cwd(), inPath): doc.content, or a throw
ReadDocFileText ==
    /\ FsCall("readText")
    /\ LET docPath == normalizePath(Cwd, inPath, "read")
           found == docPath.ok /\ FsReadFile(disk, docPath.absolutePath) # "null"
       IN  /\ polDecision' = IF docPath.ok THEN "Allowed" ELSE "Blocked"
           /\ polLocation' = IF docPath.ok THEN docPath.absolutePath ELSE <<>>
           /\ toolOut' = IF found
                         THEN [ok |-> TRUE,
                               text |-> DocContent(docPath.absolutePath, fileLen),
                               entries |-> {}]
                         ELSE NoOut

\* the agent's read_file: fileSystem.readFile(path.resolve(process.cwd(), args.path))
ServiceReadFileText ==
    /\ FsCall("serviceReadText")
    /\ LET filePath == PathResolve(Cwd, inPath)
       IN  /\ polDecision' = "Allowed"
           /\ polLocation' = filePath
           /\ toolOut' = IF FsReadFile(disk, filePath) # "null"
                         THEN [ok |-> TRUE,
                               text |-> ServiceContent(filePath, fileLen),
                               entries |-> {}]
                         ELSE NoOut

\* fs.readdir(dir) succeeds
IsDir(d, dir) == dir = Cwd \/ (dir \in DOMAIN d /\ d[dir] = "dir")

\* the entries fs.readdir(dir) returns, as resolved paths
Children(d, dir) == {l \in DOMAIN d : d[l] # "absent" /\ DirName(l) = dir}

\* walk(dir, currentDepth) of listDocFiles: the entries it pushes
RECURSIVE Walk(_, _, _, _, _)
Walk(d, dir, currentDepth, depth, recursive) ==
    IF currentDepth > depth \/ ~IsDir(d, dir) THEN {}
    ELSE UNION {
            LET relPath == PathRelative(Cwd, l)
            IN  IF SomePrefix(relPath, BLOCKED_READ_PREFIXES) THEN {}
                ELSE IF d[l] = "dir"
                THEN (IF recursive THEN Walk(d, l, currentDepth + 1, depth, recursive)
                      ELSE {relPath \o <<SLASH>>})
                ELSE {relPath}
            : l \in Children(d, dir)}

\* listDocFiles(process.cwd(), relativePath, recursive, depth)
listDocFiles(d, relativePath, recursive, depth) ==
    LET docPath == normalizePath(Cwd, relativePath, "read")
    IN  IF ~docPath.ok \/ (recursive /\ docPath.relativePath = DOT /\ depth > 1)
        THEN NoOut
        ELSE [ok |-> TRUE, text |-> Text(<<>>, 0, 0),
              entries |-> Walk(d, docPath.absolutePath, 1, depth, recursive)]

\* the list_files tools of the REPL and of runInvestigation
ListDocFiles ==
    /\ FsCall("list")
    /\ UNCHANGED <<polDecision, polLocation>>
    /\ \E recursive \in BOOLEAN, depth \in 1..2 :
        toolOut' = listDocFiles(disk, IF inPath = <<>> THEN DOT ELSE inPath,
                                recursive, depth)

\* the search_files tool of runInvestigation, the pattern found in hits
SearchFiles ==
    /\ FsCall("search")
    /\ UNCHANGED <<polDecision, polLocation>>
    /\ \E hits \in SUBSET FilesUnder(disk, Cwd) :
        toolOut' = [ok |-> TRUE, text |-> Text(<<>>, 0, 0), entries |-> searchFiles(hits)]

\* ig.ignores(relPath) with the rules '.git', 'node_modules', 'dist',
\* '.DS_Store' loadIgnore always adds, and .env when .gitignore lists it
Ignored(relPath, gitignoreHasEnv) ==
    \E i \in DOMAIN SplitSlash(relPath) :
        \/ SplitSlash(relPath)[i] \in {S_git, S_node_modules, S_dist, S_DS_Store}
        \/ gitignoreHasEnv /\ SplitSlash(relPath)[i] = S_env

\* FileSystemService.listDir(dirPath): the names that are not ignored
listDir(d, dirPath, gitignoreHasEnv) ==
    IF ~IsDir(d, dirPath) THEN NoOut
    ELSE [ok |-> TRUE, text |-> Text(<<>>, 0, 0),
          entries |-> {RelToRoot(l)[Len(RelToRoot(l))] : l \in
                          {c \in Children(d, dirPath) :
                              ~Ignored(PathRelative(Cwd, c), gitignoreHasEnv)}}]

\* the agent's list_files: fileSystem.listDir(path.resolve(process.cwd(), args.path || '.'))
AgentListDir ==
    /\ FsCall("agentList")
    /\ UNCHANGED <<polDecision, polLocation>>
    /\ \E gitignoreHasEnv \in BOOLEAN :
        toolOut' = listDir(disk, PathResolve(Cwd, IF inPath = <<>> THEN DOT ELSE inPath),
                           gitignoreHasEnv)

InitFs ==
    /\ inPath \in FsPaths
    /\ polOp = "none"
    /\ polDecision = "none"
    /\ polLocation = <<>>
    /\ firstClass = NoClass
    /\ classLeft = 1
    /\ fileLen \in ContentLengths
    /\ toolOut = NoOut
    /\ CompIdle
    /\ kind = "none"
    /\ pc = "none"
    /\ messages = <<>>
    /\ calls = <<>>
    /\ idx = 0
    /\ turns = 0
    /\ maxTurns = 0
    /\ roundTrips = 0
    /\ elapsed = 0
    /\ maxTimeMs = 0
    /\ disk \in FsDisks
    /\ pending = NoPending
    /\ writeStatus = "none"
    /\ shownFull = FALSE
    /\ paused = FALSE
    /\ lastResult = "none"
    /\ lastTool = "none"
    /\ result = "none"
    /\ returned = NoReturn
    /\ initialMessageCount = 0
    /\ onlyToolTurns = TRUE
    /\ ledger = {}
    /\ onConfirm = FALSE

NextFs ==
    \/ ReadDocFileText
    \/ ServiceReadFileText
    \/ ListDocFiles
    \/ SearchFiles
    \/ AgentListDir

SpecFs == InitFs /\ [][NextFs]_vars

----------------------------------------------------------------------------
(* Properties of the file-system tools, checked under SpecFs *)

EntryLocation(op, requested, entry) ==
    IF op = "search" THEN PathResolve(Cwd, BeforeColon(entry))
    ELSE IF op = "agentList" THEN PathResolve(PathResolve(Cwd, requested), entry)
    ELSE PathResolve(Cwd, entry)

\* C28: no result of the list and search tools holds an entry or a match
\* line of a blocked entry of the project (.git/, node_modules/, dist/,
\* build/, .next/, coverage/, .env, .DS_Store), whatever directory or
\* pattern is asked for.
C28_NoBlockedEntryInListOrSearch ==
    polOp \in {"list", "search", "agentList"} =>
        \A e \in toolOut.entries :
            ~UnderBlocked(EntryLocation(polOp, IF inPath = <<>> THEN DOT ELSE inPath, e))

----------------------------------------------------------------------------
(* Properties of what the human is told and of unconfirmed writes, checked *)
(* under Spec                                                              *)

\* a line on the console: a text, and the path printed after it
Line(text, arg) == [text |-> text, arg |-> arg]

\* what handleFeatureCommand prints once runFeatureFlow has returned r
handleFeatureCommandOutput(r) ==
    { Line("--- Planning Complete ---", <<>>),
      Line("Summary:", <<>>),
      Line(r.summary, <<>>),
      Line("Draft saved to: ", r.path) }

\* the texts that tell the human the document was not saved, or that the
\* run is incomplete
NotSavedTexts == {"Failed to generate document within turn limit."}

\* C29: when a feature-planning run ends without an approved write, the
\* human is told that the document was not saved or that the run is
\* incomplete: no "saved to" line is printed and the result names no
\* output path.
C29_UnsavedRunNotReportedAsSaved ==
    (kind = "feature" /\ pc = "done" /\ result # "written") =>
        /\ returned.path = <<>>
        /\ \E l \in handleFeatureCommandOutput(returned) : l.text \in NotSavedTexts
        /\ \A l \in handleFeatureCommandOutput(returned) : l.text # "Draft saved to: "

\* C30: every write to disk of content that the reasoning service produced
\* is preceded by the human's approval of that write: the files change
\* only in a step at the confirmation whose answer is approval.
C30_EveryWritePassesTheGate ==
    [][disk' # disk => (pc = "gate" /\ writeStatus' = "approved")]_vars

----------------------------------------------------------------------------
(* Properties of the interactive input *)

\* C31: the input is never left paused once the tool call or command that
\* paused it has returned: in the REPL it is paused only while a write
\* confirmation is outstanding, and a session run by a command has resumed
\* it when the session has returned or thrown.
C31_PauseAlwaysResumed ==
    /\ (kind = "repl" /\ pc # "gate") => ~paused
    /\ (kind \in CommandKinds /\ pc \in {"done", "failed"}) => ~paused

\* a feature flow in which the human rejected a write has thrown afterwards,
\* and the input is resumed
C31_Witness ==
    /\ kind = "feature"
    /\ pc = "failed"
    /\ writeStatus = "rejected"
    /\ ~paused

----------------------------------------------------------------------------
(* Properties of the agent loop run without a confirmation callback *)

\* C32: in an agent loop that was handed no confirmation callback no step
\* changes the files, and every write_file request, whatever its path, is
\* answered at once with the result that writing is not supported.
C32_NoWriteWithoutCallback ==
    [][(kind = "agent" /\ ~onConfirm) =>
          /\ disk' = disk
          /\ pc' # "gate"
          /\ (pc = "dispatch" /\ lastTool' = "write_file" /\ pc' # "failed") =>
                /\ lastResult' = "Write not supported in this mode"
                /\ RequestAnswered]_vars

\* an agent loop without callback has answered a write_file request
C32_Witness ==
    /\ kind = "agent"
    /\ ~onConfirm
    /\ lastTool = "write_file"
    /\ lastResult = "Write not supported in this mode"
    /\ messages[Len(messages)].role = "tool"

----------------------------------------------------------------------------
(* Properties of the REPL's busy flag, checked under SpecLive *)

\* isProcessing of the line handler
isProcessing == kind = "repl" /\ pc # "idle"

\* C33: once the REPL has accepted a line and set its busy flag, the flag
\* is eventually cleared, whatever the outcome of the command, of the call
\* of the reasoning service or of the tool call (the turns the model follows
\* being used up aside).
C33_BusyFlagEventuallyCleared ==
    isProcessing ~> (~isProcessing \/ roundTrips = MaxReplCalls)

\* C34: at most one line handler is in its processing section: while the
\* busy flag is set no step begins a turn (no user message is appended, the
\* turn's initial message count stays), and a call of the reasoning service
\* is made only by the running handler at the top of its loop.
C34_OneHandlerAtATime ==
    [][isProcessing =>
          /\ initialMessageCount' = initialMessageCount
          /\ Len(messages') > Len(messages) => messages'[Len(messages')].role # "user"
          /\ roundTrips' # roundTrips => pc = "loop"]_vars

\* a handler is processing a batch of tool requests while lines can arrive
C34_Witness ==
    /\ kind = "repl"
    /\ pc = "dispatch"
    /\ idx > 1
    /\ roundTrips < MaxReplCalls

----------------------------------------------------------------------------
(* commands/Chat.tsx: the Chat component and its confirmation dialog *)

\* the render shows the text input, whose onSubmit is handleSubmit, unless
\* the confirmation dialog (or the API key form) is returned instead;
\* isLoading does not hide it
TextInputShown == confirmation = 0

\* handleSubmit up to investigatorAgent.investigate of /investigate or of
\* the investigate intent: setIsLoading(true), then the agent runs
HandleSubmit(i) ==
    /\ TextInputShown
    /\ submits[i].at = "idle"
    /\ submits' = [submits EXCEPT ![i] = [at |-> "running", awaits |-> 0]]
    /\ isLoading' = TRUE
    /\ UNCHANGED <<confirmation, promises>>
    /\ UNCHANGED <<pathVars, sessVars, ctxVars, capVars, mcpVars>>

\* the callback handed to investigate, called for a write_file request:
\* new Promise(resolve => setConfirmation({tool, args, resolve}))
ConfirmCallback(i) ==
    /\ submits[i].at = "running"
    /\ Len(promises) < MaxPromises
    /\ promises' = Append(promises, "pending")
    /\ confirmation' = Len(promises) + 1
    /\ submits' = [submits EXCEPT ![i] = [at |-> "confirming", awaits |-> Len(promises) + 1]]
    /\ UNCHANGED isLoading
    /\ UNCHANGED <<pathVars, sessVars, ctxVars, capVars, mcpVars>>

\* handleConfirmation(approved), the onSelect of the dialog: resolve of the
\* request in the state, setConfirmation(null); the agent that awaits the
\* promise goes on
HandleConfirmation ==
    /\ confirmation # 0
    /\ \E approved \in BOOLEAN :
        /\ promises' = [promises EXCEPT ![confirmation] = "resolved"]
        /\ confirmation' = 0
        /\ submits' = [i \in 1..MaxSubmits |->
                          IF submits[i].awaits = confirmation
                          THEN [at |-> "running", awaits |-> 0] ELSE submits[i]]
    /\ UNCHANGED isLoading
    /\ UNCHANGED <<pathVars, sessVars, ctxVars, capVars, mcpVars>>

\* investigate returns: setHistory, setStreamingContent(''), setIsLoading(false)
SubmitReturns(i) ==
    /\ submits[i].at = "running"
    /\ submits' = [submits EXCEPT ![i] = [at |-> "returned", awaits |-> 0]]
    /\ isLoading' = FALSE
    /\ UNCHANGED <<confirmation, promises>>
    /\ UNCHANGED <<pathVars, sessVars, ctxVars, capVars, mcpVars>>

InitInk ==
    /\ PathIdle
    /\ SessIdle
    /\ InkIdle
    /\ CtxIdle
    /\ CapIdle
    /\ McpIdle

NextInk ==
    \/ \E i \in 1..MaxSubmits : HandleSubmit(i)
    \/ \E i \in 1..MaxSubmits : ConfirmCallback(i)
    \/ HandleConfirmation
    \/ \E i \in 1..MaxSubmits : SubmitReturns(i)

SpecInk == InitInk /\ [][NextInk]_vars

\* C35: at most one confirmation request is outstanding at a time and none
\* is overwritten: every promise of the confirmation callback that is still
\* pending is the one whose resolve the confirmation state holds, so that
\* the human's Allow or Deny resolves it.
C35_PendingRequestIsTheOneShown ==
    \A p \in 1..Len(promises) : promises[p] = "pending" => confirmation = p

----------------------------------------------------------------------------
(* ContextManager: initialize, addMessage, prune *)

\* Array.prototype.slice(start): a negative start counts from the end, and
\* -0 is 0
Slice(arr, start) ==
    LET k == IF start < 0
             THEN (IF Len(arr) + start > 0 THEN Len(arr) + start ELSE 0)
             ELSE (IF start < Len(arr) THEN start ELSE Len(arr))
    IN  SubSeq(arr, k + 1, Len(arr))

\* prune(): [system, ...this.messages.slice(-(this.maxHistory))] when the
\* array is longer than maxHistory + 1
prune(msgs, mh) ==
    IF Len(msgs) > mh + 1
    THEN <<msgs[1]>> \o Slice(msgs, 0 - mh)
    ELSE msgs

SystemPrompt == [role |-> "system", n |-> 0]

\* addMessage(role, content): push, then prune; n tells the messages apart
AddMessage ==
    /\ Len(added) < MaxAdds
    /\ \E role \in {"user", "assistant"} :
        LET msg == [role |-> role, n |-> Len(added) + 1]
        IN  /\ ctxMessages' = prune(Append(ctxMessages, msg), maxHistory)
            /\ added' = Append(added, msg)
    /\ UNCHANGED maxHistory
    /\ UNCHANGED <<pathVars, sessVars, inkVars, capVars, mcpVars>>

\* new ContextManager(maxHistory), then initialize(systemPrompt)
InitContext ==
    /\ PathIdle
    /\ SessIdle
    /\ InkIdle
    /\ CapIdle
    /\ McpIdle
    /\ maxHistory \in 0..MaxHistory
    /\ ctxMessages = <<SystemPrompt>>
    /\ added = <<>>

NextContext == AddMessage

SpecContext == InitContext /\ [][NextContext]_vars

\* the last k elements of a sequence
LastOf(seq, k) == SubSeq(seq, Len(seq) - k + 1, Len(seq))

\* C36: for every maxHistory >= 0 the first message of the
\* history is the system prompt, the history holds at most maxHistory + 1
\* messages, and the others are exactly the most recent messages added, in
\* their order.
C36_SystemPromptAndMostRecentKept ==
    /\ ctxMessages[1] = SystemPrompt
    /\ Len(ctxMessages) <= maxHistory + 1
    /\ Tail(ctxMessages) =
          LastOf(added, IF Len(added) < maxHistory THEN Len(added) ELSE maxHistory)

----------------------------------------------------------------------------
(* core/fsTools.ts: the caps of searchFiles and listDocFiles *)

MAX_MATCHES == 50

MAX_PREVIEW_LENGTH == 200

maxEntries == 200

\* a line of a search result: a match line of chars characters, followed by
\* '...' or not, or the summary line
MatchLine(chars, ellipsis) == [is |-> "match", chars |-> chars, ellipsis |-> ellipsis]

SummaryLine(more) == [is |-> "summary", chars |-> more, ellipsis |-> FALSE]

\* line.length > MAX_PREVIEW_LENGTH ? line.substring(0, MAX_PREVIEW_LENGTH) + '...' : line
Preview(len) ==
    IF len > MAX_PREVIEW_LENGTH THEN MatchLine(MAX_PREVIEW_LENGTH, TRUE)
    ELSE MatchLine(len, FALSE)

\* searchFiles from allowedLines on: more than MAX_MATCHES lines are cut to
\* the first MAX_MATCHES, as they are, and the summary line; otherwise each
\* line is cut to its preview
SearchResult(allowed) ==
    IF Len(allowed) > MAX_MATCHES
    THEN [i \in 1..MAX_MATCHES |-> MatchLine(allowed[i], FALSE)]
            \o <<SummaryLine(Len(allowed) - MAX_MATCHES)>>
    ELSE [i \in 1..Len(allowed) |-> Preview(allowed[i])]

\* the Dirents of a directory that are not blocked
Listable(dirents) == {i \in DOMAIN dirents : dirents[i] # "blocked"}

\* the for loop of walk(absolutePath, 1) without recursion: break once
\* entries.length >= maxEntries, continue on a blocked Dirent, else push;
\* the i-th Dirent is pushed when it is listable and fewer than maxEntries
\* listable ones come before it
WalkEntries(dirents) ==
    {i \in Listable(dirents) :
        Cardinality({j \in Listable(dirents) : j < i}) < maxEntries}

\* listDocFiles(projectRoot, dir): the Dirents pushed, and whether the
\* marker "... (truncated: max 200 files)" was pushed after them
ListResult(dirents) ==
    LET acc == WalkEntries(dirents)
    IN  [listed |-> acc, marker |-> Cardinality(acc) >= maxEntries]

\* lines of which at most one is long
LinesWith(n, longAt, longLen) == [i \in 1..n |-> IF i = longAt THEN longLen ELSE 10]

\* a directory of n Dirents of which at most one is blocked and one a directory
DirentsWith(n, blockedAt, dirAt) ==
    [i \in 1..n |-> IF i = blockedAt THEN "blocked" ELSE IF i = dirAt THEN "dir" ELSE "file"]

\* searchFiles(cwd, pattern) from the filtered lines on
SearchFilesCapped ==
    /\ capOp = "none"
    /\ capOp' = "search"
    /\ matches' = SearchResult(allowedLines)
    /\ UNCHANGED <<allowedLines, files, entries>>
    /\ UNCHANGED <<pathVars, sessVars, inkVars, ctxVars, mcpVars>>

\* listDocFiles(projectRoot, dir) on an allowed directory, not recursive
ListDocFilesCapped ==
    /\ capOp = "none"
    /\ capOp' = "list"
    /\ entries' = ListResult(files)
    /\ UNCHANGED <<allowedLines, matches, files>>
    /\ UNCHANGED <<pathVars, sessVars, inkVars, ctxVars, mcpVars>>

InitCaps ==
    /\ PathIdle
    /\ SessIdle
    /\ InkIdle
    /\ CtxIdle
    /\ McpIdle
    /\ capOp = "none"
    /\ \E n \in {0, 1, MAX_MATCHES, MAX_MATCHES + 1, MAX_MATCHES + 2},
          longAt \in {0, 1, MAX_MATCHES, MAX_MATCHES + 1},
          longLen \in {MAX_PREVIEW_LENGTH, MAX_PREVIEW_LENGTH + 1, MAX_PREVIEW_LENGTH + 100} :
        allowedLines = LinesWith(n, longAt, longLen)
    /\ matches = <<>>
    /\ \E n \in {0, 1, maxEntries - 1, maxEntries, maxEntries + 1, maxEntries + 2},
          blockedAt \in {0, 1}, dirAt \in {0, 2} :
        files = DirentsWith(n, blockedAt, dirAt)
    /\ entries = NoEntries

NextCaps == SearchFilesCapped \/ ListDocFilesCapped

SpecCaps == InitCaps /\ [][NextCaps]_vars

\* C37: every result of searchFiles has at most 50 match lines and at most
\* one summary line, and every match line in it is at most 200 characters
\* long (plus the ellipsis), however many and however long the matches.
C37_SearchResultCapped ==
    capOp = "search" =>
        /\ Cardinality({i \in DOMAIN matches : matches[i].is = "match"}) <= MAX_MATCHES
        /\ Cardinality({i \in DOMAIN matches : matches[i].is = "summary"}) <= 1
        /\ \A i \in DOMAIN matches :
              matches[i].is = "match" => matches[i].chars <= MAX_PREVIEW_LENGTH

\* C38: listDocFiles returns at most 200 entries, and the truncation marker
\* is appended if and only if at least one listable entry was left out.
C38_MarkerIffEntryOmitted ==
    capOp = "list" =>
        /\ Cardinality(entries.listed) <= maxEntries
        /\ entries.marker <=> (entries.listed # Listable(files))

----------------------------------------------------------------------------
(* services/MCPService.ts: connectToServer, disconnect, reconnect, ensureConnections *)

\* the sum of f over the set S of arguments
RECURSIVE SumOver(_, _)
SumOver(f, S) ==
    IF S = {} THEN 0
    ELSE LET x == CHOOSE y \in S : TRUE
         IN  f[x] + SumOver(f, S \ {x})

\* clients connected or being connected
ClientsInUse == SumOver(live, ServerNames) + SumOver(connecting, ServerNames \X Callers)

\* connectToServer up to `await client.connect(transport)`: the test of
\* clients.has(name), the transport, the new Client
ConnectStarts(name, caller) ==
    /\ name \notin clients
    /\ ClientsInUse < MaxClients
    /\ connecting' = [connecting EXCEPT ![<<name, caller>>] = @ + 1]

\* connectToServer from the await on: clients.set(name, client), or the
\* exception; the callers that catch it update connectionErrors
ConnectEnds(name, caller, ok) ==
    /\ connecting[<<name, caller>>] > 0
    /\ connecting' = [connecting EXCEPT ![<<name, caller>>] = @ - 1]
    /\ clients' = IF ok THEN clients \cup {name} ELSE clients
    /\ live' = IF ok THEN [live EXCEPT ![name] = @ + 1] ELSE live
    /\ connectionErrors' =
          IF caller = "managed"
          THEN (IF ok THEN connectionErrors \ {name} ELSE connectionErrors \cup {name})
          ELSE connectionErrors

\* connectToServer(name, config) called from outside the service, up to its await
ConnectToServer ==
    /\ \E name \in ServerNames : ConnectStarts(name, "direct")
    /\ UNCHANGED <<clients, connectionErrors, live>>
    /\ UNCHANGED <<pathVars, sessVars, inkVars, ctxVars, capVars>>

\* one pass of the for loop of ensureConnections, up to the await of
\* connectToServer
EnsureConnections ==
    /\ \E name \in ServerNames : ConnectStarts(name, "managed")
    /\ UNCHANGED <<clients, connectionErrors, live>>
    /\ UNCHANGED <<pathVars, sessVars, inkVars, ctxVars, capVars>>

\* the connection attempt of a call of connectToServer ends
Connected ==
    /\ \E name \in ServerNames, caller \in Callers, ok \in BOOLEAN :
          ConnectEnds(name, caller, ok)
    /\ UNCHANGED <<pathVars, sessVars, inkVars, ctxVars, capVars>>

\* the body of disconnect(name): close the client of the map, delete the
\* name from both maps
Disconnected(name) ==
    IF name \in clients
    THEN /\ clients' = clients \ {name}
         /\ connectionErrors' = connectionErrors \ {name}
         /\ live' = [live EXCEPT ![name] = @ - 1]
    ELSE UNCHANGED <<clients, connectionErrors, live>>

\* disconnect(name)
Disconnect ==
    /\ \E name \in ServerNames : name \in clients /\ Disconnected(name)
    /\ UNCHANGED connecting
    /\ UNCHANGED <<pathVars, sessVars, inkVars, ctxVars, capVars>>

\* reconnect(name): disconnect, then connectToServer up to its await
Reconnect ==
    /\ \E name \in ServerNames :
          /\ Disconnected(name)
          /\ ClientsInUse < MaxClients
          /\ connecting' = [connecting EXCEPT ![<<name, "managed">>] = @ + 1]
    /\ UNCHANGED <<pathVars, sessVars, inkVars, ctxVars, capVars>>

InitMcp ==
    /\ PathIdle
    /\ SessIdle
    /\ InkIdle
    /\ CtxIdle
    /\ CapIdle
    /\ McpIdle

NextMcp ==
    \/ ConnectToServer
    \/ EnsureConnections
    \/ Connected
    \/ Disconnect
    \/ Reconnect

SpecMcp == InitMcp /\ [][NextMcp]_vars

\* C39: after any sequence of connectToServer, ensureConnections, reconnect
\* and disconnect calls no server name is both connected and in the
\* connection errors, and no name has a second client open.
C39_ConnectedOrErrorAndOneClient ==
    /\ clients \cap connectionErrors = {}
    /\ \A name \in ServerNames : live[name] <= 1

====
